---------------------------- MODULE Spec2Model ----------------------------
(***************************************************************************)
(* State-machine model of the Sankey report builder                        *)
(* (src/src/utils/sankeyHelpers.ts, src/src/components/SankeyChart.tsx,    *)
(* src/src/App.tsx, the ImageManager of                                    *)
(* src/src/components/ExportButtons.tsx and the BalanceSummary of          *)
(* src/unnamed/part_001).                                                  *)
(*                                                                         *)
(* Strings are sequences of Unicode code points, so that trim(),           *)
(* toLowerCase() and includes() are computed character by character.       *)
(* Pixel geometry that involves linkWidthScale (a multiple of 0.1) and     *)
(* halving is held exactly in units of 1/(2*ScaleDen) pixel.               *)
(***************************************************************************)
EXTENDS Integers, Sequences, FiniteSets, TLC

VARIABLES
    cls,            \* determineFlowType call: [source, target, result]
    bld,            \* prepareNodesAndLinks call: [rows, called, nodes, links]
    rows,           \* App state: the table rows (useState rows)
    settings,       \* App state: ReportSettings (useState settings)
    selectedNode,   \* App state: the selected node name (optional)
    dragStartRef,   \* SankeyChart ref: pointer-down position of a node drag (optional)
    dragOffsetRef,  \* SankeyChart ref: live delta of the node drag (optional)
    gestures,       \* number of node-drag gestures started so far
    lastOp,         \* the last handler that ran, with its arguments and pre-state
    stk,            \* link stroke call: [settings, source, target, flowType, result]
    bal,            \* balance checker call: [rows, called, result]
    selectedImageId,\* App state: the id of the selected image (optional)
    imageDragRef,   \* SankeyChart ref: the image drag in progress (optional)
    imageResizeRef, \* SankeyChart ref: the image resize in progress (optional)
    chart,          \* the rendered SankeyChart: props, scene, layoutCacheRef, error
    par,            \* buildParentGroups call: [rows, called, result]
    ld              \* a load from localStorage: [rowsBlob, settingsBlob, called, rows, settings]

vars == <<cls, bld, rows, settings, selectedNode, dragStartRef, dragOffsetRef,
          gestures, lastOp, stk, bal, selectedImageId, imageDragRef, imageResizeRef,
          chart, par, ld>>

(***************************************************************************)
(* Bounds of the model.                                                    *)
(***************************************************************************)
MaxRows == 3        \* longest row list handed to prepareNodesAndLinks
MaxFragments == 2   \* a classified name is built from at most this many fragments
MaxStoredRows == 2  \* longest array of the rows blob in storage
MaxGestures == 1    \* pointer gestures (drags, slider moves) and table edits per behaviour
MaxImages == 1      \* images placed on the canvas at a time
MaxBalanceRows == 2 \* longest row list handed to the balance checker

(***************************************************************************)
(* JavaScript values.                                                      *)
(***************************************************************************)
\* An optional value (a field that may be undefined, a state that may be null)
\* is the empty set or a singleton.
None == {}
Some(v) == {v}
IsSome(o) == o # {}
TheValue(o) == CHOOSE v \in o : TRUE
\* `o || d` for an optional number: undefined and 0 both give d.
OrDefault(o, d) == IF IsSome(o) /\ TheValue(o) # 0 THEN TheValue(o) ELSE d

Range(s) == {s[i] : i \in 1..Len(s)}
\* `const v = e; ... F(v)`: e is evaluated once and its value handed to F.
Let(e, F(_)) == CHOOSE r \in {F(v) : v \in {e}} : TRUE
\* A sequence given as a function, evaluated once into a tuple.
Tuple(f) == <<>> \o f
Min2(a, b) == IF a < b THEN a ELSE b
Max2(a, b) == IF a > b THEN a ELSE b
MaxOf(S) == CHOOSE m \in S : \A o \in S : o <= m

(***************************************************************************)
(* String.prototype functions used by the code.                            *)
(***************************************************************************)
\* White space removed by trim(): TAB, LF, VT, FF, CR, SPACE, NBSP.
IsWhiteSpace(c) == c \in {9, 10, 11, 12, 13, 32, 160}

RECURSIVE trimStart(_)
trimStart(s) ==
    IF s = <<>> THEN <<>>
    ELSE IF IsWhiteSpace(Head(s)) THEN trimStart(Tail(s)) ELSE s

RECURSIVE trimEnd(_)
trimEnd(s) ==
    IF s = <<>> THEN <<>>
    ELSE IF IsWhiteSpace(s[Len(s)]) THEN trimEnd(SubSeq(s, 1, Len(s) - 1)) ELSE s

trim(s) == trimEnd(trimStart(s))

\* toLowerCase on one code point: Latin A-Z, Cyrillic U+0410..U+042F, U+0401.
LowerChar(c) ==
    IF c >= 65 /\ c <= 90 THEN c + 32
    ELSE IF c >= 1040 /\ c <= 1071 THEN c + 32
    ELSE IF c = 1025 THEN 1105
    ELSE c

toLowerCase(s) == Tuple([i \in 1..Len(s) |-> LowerChar(s[i])])

\* s.includes(k): k occurs in s as a contiguous substring.
includes(s, k) ==
    \E i \in 0..(Len(s) - Len(k)) : SubSeq(s, i + 1, i + Len(k)) = k

\* a.localeCompare(b) < 0 for names made of capital Latin letters, where the
\* collation order is the code-point order.
RECURSIVE localeLess(_, _)
localeLess(a, b) ==
    IF b = <<>> THEN FALSE
    ELSE IF a = <<>> THEN TRUE
    ELSE IF Head(a) # Head(b) THEN Head(a) < Head(b)
    ELSE localeLess(Tail(a), Tail(b))

(***************************************************************************)
(* determineFlowType (sankeyHelpers.ts 27-48).                             *)
(***************************************************************************)
KwProchi == <<1087, 1088, 1086, 1095, 1080>>                  \* 'прочи'
KwDohod == <<1076, 1086, 1093, 1086, 1076>>                   \* 'доход'
KwVyruchka == <<1074, 1099, 1088, 1091, 1095, 1082, 1072>>    \* 'выручка'
KwPribyl == <<1087, 1088, 1080, 1073, 1099, 1083, 1100>>      \* 'прибыль'
KwEbitda == <<101, 98, 105, 116, 100, 97>>                    \* 'ebitda'
KwChistaya == <<1095, 1080, 1089, 1090, 1072, 1103>>          \* 'чистая'

FlowTypes == {"revenue", "adjacentRevenue", "profit", "expense"}

\* The profit test placed before the revenue test.
determineFlowTypeProfitFirst(source, target) ==
    Let(toLowerCase(source), LAMBDA sourceLower :
    Let(toLowerCase(target), LAMBDA targetLower :
        IF includes(sourceLower, KwProchi)
           /\ (includes(sourceLower, KwDohod) \/ includes(sourceLower, KwVyruchka))
        THEN "adjacentRevenue"
        ELSE IF includes(targetLower, KwPribyl) \/ includes(targetLower, KwEbitda)
                \/ includes(targetLower, KwChistaya)
        THEN "profit"
        ELSE IF includes(sourceLower, KwVyruchka) \/ includes(sourceLower, KwDohod)
        THEN "revenue"
        ELSE "expense"))

determineFlowType(source, target) ==
    Let(toLowerCase(source), LAMBDA sourceLower :
    Let(toLowerCase(target), LAMBDA targetLower :
        IF includes(sourceLower, KwProchi)
           /\ (includes(sourceLower, KwDohod) \/ includes(sourceLower, KwVyruchka))
        THEN "adjacentRevenue"
        ELSE IF includes(sourceLower, KwVyruchka) \/ includes(sourceLower, KwDohod)
        THEN "revenue"
        ELSE IF includes(targetLower, KwPribyl) \/ includes(targetLower, KwEbitda)
                \/ includes(targetLower, KwChistaya)
        THEN "profit"
        ELSE "expense"))

(***************************************************************************)
(* prepareNodesAndLinks (sankeyHelpers.ts 63-96).                          *)
(***************************************************************************)
\* An add that appends unconditionally (a list instead of a Set).
SetAddNoDedup(seq, x) == Append(seq, x)

\* Set.prototype.add on an insertion-ordered Set.
SetAdd(seq, x) == IF x \in Range(seq) THEN seq ELSE Append(seq, x)

\* if (name.trim()) nodeNames.add(name.trim())
addName(acc, name) == IF trim(name) # <<>> THEN SetAdd(acc, trim(name)) ELSE acc

\* rows.forEach(row => { add source; add target })
RECURSIVE collectNodeNames(_, _)
collectNodeNames(rs, acc) ==
    IF rs = <<>> THEN acc
    ELSE Let(addName(acc, Head(rs).source), LAMBDA a1 :
         Let(addName(a1, Head(rs).target), LAMBDA a2 :
         collectNodeNames(Tail(rs), a2)))

\* The row filter of graph construction (sankeyHelpers.ts 85, App.tsx 732,
\* SankeyChart.tsx 49).
isValidRow(row) ==
    trim(row.source) # <<>> /\ trim(row.target) # <<>> /\ row.currentPeriod > 0

RECURSIVE filterValid(_)
filterValid(rs) ==
    IF rs = <<>> THEN <<>>
    ELSE IF isValidRow(Head(rs)) THEN <<Head(rs)>> \o filterValid(Tail(rs))
    ELSE filterValid(Tail(rs))

\* nodeIndex.get(name): the 0-based position of name in the node list.
nodeIndexOf(names, name) == (CHOOSE i \in 1..Len(names) : names[i] = name) - 1

\* A link that carries currentPeriod in both value fields of the periods.
makeLinkSamePeriod(names, row) ==
    [source |-> nodeIndexOf(names, trim(row.source)),
     target |-> nodeIndexOf(names, trim(row.target)),
     value |-> row.currentPeriod,
     flowType |-> determineFlowType(row.source, row.target),
     currentValue |-> row.currentPeriod,
     previousValue |-> row.currentPeriod]

makeLink(names, row) ==
    [source |-> nodeIndexOf(names, trim(row.source)),
     target |-> nodeIndexOf(names, trim(row.target)),
     value |-> row.currentPeriod,
     flowType |-> determineFlowType(row.source, row.target),
     currentValue |-> row.currentPeriod,
     previousValue |-> row.previousPeriod]

\* `node-${index}`
nodeId(index) == <<"node-", index>>

prepareNodesAndLinks(rs) ==
    Let(collectNodeNames(rs, <<>>), LAMBDA names :
    Let(filterValid(rs), LAMBDA valid :
        [nodes |-> Tuple([i \in 1..Len(names) |-> [name |-> names[i], id |-> nodeId(i - 1)]]),
         links |-> Tuple([i \in 1..Len(valid) |-> makeLink(names, valid[i])])]))

(***************************************************************************)
(* Program constants.                                                      *)
(***************************************************************************)
MarginTop == 80
MarginRight == 250
MarginBottom == 40
MarginLeft == 250
MinNodeHeight == 8
ClickThreshold == 2
MinImageSize == 30
BasePadding == 25
TextPadExtra == 10
DefaultChartWidth == 1200
DefaultChartHeight == 700
DefaultNodeWidth == 20
DefaultNodeLabelSize == 12
DefaultNodeValueSize == 11
\* linkWidthScale is a multiple of 1/ScaleDen (the slider's step 0.1); the
\* model holds it as the integer numerator.
ScaleDen == 10
DefaultLinkWidthScale == 10
\* Geometry unit: 1 px = Unit units, so that scaled half-heights are integers.
Unit == 2 * ScaleDen

\* defaultColors (App.tsx 598-604), the flow colours.
defaultColors ==
    [revenueFlow |-> "#4caf50",
     adjacentRevenueFlow |-> "#8bc34a",
     profitFlow |-> "#2196f3",
     expenseFlow |-> "#ff9800"]

\* baseSettings (App.tsx 618-634), the fields the layout, the overrides, the
\* link colours and the images read.
baseSettings ==
    [colors |-> defaultColors,
     images |-> <<>>,
     nodeLabelSize |-> DefaultNodeLabelSize,
     nodeValueSize |-> DefaultNodeValueSize,
     nodeWidth |-> DefaultNodeWidth,
     linkWidthScale |-> DefaultLinkWidthScale,
     chartWidth |-> DefaultChartWidth,
     chartHeight |-> DefaultChartHeight,
     nodeSettings |-> <<>>]

\* A NodeSettings object with no field set ({}).
emptyNodeSettings ==
    [color |-> None, labelSize |-> None, valueSize |-> None,
     offsetX |-> None, offsetY |-> None, linkColorPriority |-> None,
     childrenOrder |-> None, orderY |-> None]

\* settings.nodeSettings[nodeName] || {}
getNodeSettings(st, nodeName) ==
    IF nodeName \in DOMAIN st.nodeSettings THEN st.nodeSettings[nodeName]
    ELSE emptyNodeSettings

\* JavaScript truthiness of an optional string and of an optional boolean.
truthyString(s) == IsSome(s) /\ TheValue(s) # ""
truthyFlag(b) == IsSome(b) /\ TheValue(b)

\* getFlowColor (sankeyHelpers.ts 50-61).
getFlowColor(flowType, colors) ==
    CASE flowType = "revenue" -> colors.revenueFlow
      [] flowType = "adjacentRevenue" -> colors.adjacentRevenueFlow
      [] flowType = "profit" -> colors.profitFlow
      [] flowType = "expense" -> colors.expenseFlow

\* A stroke that asks the source's priority before the target's.
linkStrokeSourceFirst(st, sourceName, targetName, flowType) ==
    Let(getNodeSettings(st, sourceName), LAMBDA sourceSettings :
    Let(getNodeSettings(st, targetName), LAMBDA targetSettings :
        IF truthyString(sourceSettings.color) /\ truthyFlag(sourceSettings.linkColorPriority)
        THEN TheValue(sourceSettings.color)
        ELSE IF truthyString(targetSettings.color) /\ truthyFlag(targetSettings.linkColorPriority)
        THEN TheValue(targetSettings.color)
        ELSE IF truthyString(sourceSettings.color) THEN TheValue(sourceSettings.color)
        ELSE IF truthyString(targetSettings.color) THEN TheValue(targetSettings.color)
        ELSE getFlowColor(flowType, st.colors)))

\* The stroke attribute of a link (SankeyChart.tsx 276-290).
linkStroke(st, sourceName, targetName, flowType) ==
    Let(getNodeSettings(st, sourceName), LAMBDA sourceSettings :
    Let(getNodeSettings(st, targetName), LAMBDA targetSettings :
        IF truthyString(targetSettings.color) /\ truthyFlag(targetSettings.linkColorPriority)
        THEN TheValue(targetSettings.color)
        ELSE IF truthyString(sourceSettings.color) /\ truthyFlag(sourceSettings.linkColorPriority)
        THEN TheValue(sourceSettings.color)
        ELSE IF truthyString(sourceSettings.color) THEN TheValue(sourceSettings.color)
        ELSE IF truthyString(targetSettings.color) THEN TheValue(targetSettings.color)
        ELSE getFlowColor(flowType, st.colors)))

\* { ...obj, [key]: value } on the nodeSettings map.
withEntry(ns, key, value) ==
    [k \in (DOMAIN ns) \cup {key} |-> IF k = key THEN value ELSE ns[k]]

(***************************************************************************)
(* The d3-sankey layout as the chart and the column map configure it       *)
(* (SankeyChart.tsx 105-141, App.tsx 906-934): columns by longest path     *)
(* with sinks justified to the last column, nodes of a column in nodeSort  *)
(* order, heights proportional to value.  Coordinates are whole pixels     *)
(* (rounded down); the relaxation sweeps, which shift nodes vertically     *)
(* inside the extent without changing column, order or height, are not     *)
(* modelled.                                                               *)
(***************************************************************************)
RECURSIVE sumLinkValues(_, _)
sumLinkValues(links, S) ==
    IF S = {} THEN 0
    ELSE Let(CHOOSE k \in S : TRUE, LAMBDA k :
         links[k].value + sumLinkValues(links, S \ {k}))

sourceLinks(g, i) == {k \in 1..Len(g.links) : g.links[k].source = i}
targetLinks(g, i) == {k \in 1..Len(g.links) : g.links[k].target = i}

\* computeNodeValues: max of the outgoing and the incoming sum.
nodeValue(g, i) ==
    Max2(sumLinkValues(g.links, sourceLinks(g, i)), sumLinkValues(g.links, targetLinks(g, i)))

\* computeNodeDepths: breadth-first sweeps from all nodes; more than n sweeps
\* means a circular link.
RECURSIVE depthSweep(_, _, _, _)
depthSweep(g, current, x, depth) ==
    IF current = {} THEN [ok |-> TRUE, depth |-> depth, columns |-> x]
    ELSE Let(Tuple([i \in 1..Len(depth) |-> IF (i - 1) \in current THEN x ELSE depth[i]]),
             LAMBDA depth2 :
         Let({g.links[k].target : k \in {k \in 1..Len(g.links) : g.links[k].source \in current}},
             LAMBDA next :
             IF x + 1 > Len(g.nodes) THEN [ok |-> FALSE, depth |-> depth2, columns |-> x + 1]
             ELSE depthSweep(g, next, x + 1, depth2)))

\* depth[i] for node index i in 0..n-1, as a tuple indexed from 1.
computeNodeDepths(g) ==
    depthSweep(g, 0..(Len(g.nodes) - 1), 0, Tuple([i \in 1..Len(g.nodes) |-> 0]))

\* sankeyJustify, clamped to the column range (computeNodeLayers).
nodeLayer(g, d, i) ==
    Max2(0, Min2(d.columns - 1,
                 IF sourceLinks(g, i) # {} THEN d.depth[i + 1] ELSE d.columns - 1))

\* nodeSort of the chart and of the column map: first-seen index (the names
\* of a node list are distinct, so the name tie-break never decides).
RECURSIVE sortedByIndex(_)
sortedByIndex(S) ==
    IF S = {} THEN <<>>
    ELSE Let(CHOOSE m \in S : \A o \in S : m <= o, LAMBDA m :
         <<m>> \o sortedByIndex(S \ {m}))

\* nodePadding: max(25 * max(1, linkWidthScale), labelSize + 2*valueSize + 10).
nodePaddingValue(st) ==
    Max2((BasePadding * Max2(ScaleDen, OrDefault(Some(st.linkWidthScale), DefaultLinkWidthScale)))
             \div ScaleDen,
         OrDefault(Some(st.nodeLabelSize), DefaultNodeLabelSize)
             + OrDefault(Some(st.nodeValueSize), DefaultNodeValueSize) * 2 + TextPadExtra)

chartWidthOf(st) == OrDefault(Some(st.chartWidth), DefaultChartWidth)
chartHeightOf(st) == OrDefault(Some(st.chartHeight), DefaultChartHeight)
nodeWidthOf(st) == OrDefault(Some(st.nodeWidth), DefaultNodeWidth)

RECURSIVE sumSeq(_)
sumSeq(q) == IF q = <<>> THEN 0 ELSE Head(q) + sumSeq(Tail(q))

\* The node values and the node layers, in node-list order.
nodeValues(g) == Tuple([i \in 1..Len(g.nodes) |-> nodeValue(g, i - 1)])
nodeLayers(g, d) == Tuple([i \in 1..Len(g.nodes) |-> nodeLayer(g, d, i - 1)])

\* column[c + 1]: the positions (in the node list) of the nodes of layer c,
\* in nodeSort order.
layerColumns(layer, x) ==
    Tuple([c \in 1..x |-> sortedByIndex({i \in 1..Len(layer) : layer[i] = c - 1})])

\* The values of the nodes of one column.
columnValues(col, value) == Tuple([q \in 1..Len(col) |-> value[col[q]]])

\* ky = min over the columns of (height - (len - 1) * py) / sum of values,
\* kept as the fraction num/den.
columnScale(column, value, extentHeight, py) ==
    Let(Tuple([c \in 1..Len(column) |->
               [num |-> extentHeight - (Len(column[c]) - 1) * py,
                den |-> sumSeq(columnValues(column[c], value))]]), LAMBDA k :
        k[CHOOSE c \in 1..Len(k) : \A o \in 1..Len(k) : k[c].num * k[o].den <= k[o].num * k[c].den])

nodeHeights(value, ky) == Tuple([i \in 1..Len(value) |-> (value[i] * ky.num) \div ky.den])

\* initializeNodeBreadths for the node at position i of the list: stacked
\* from the top of the extent with padding py, then the column is spread by
\* the free height / (len + 1).
nodeBox(g, st, x, layer, column, height, value, i) ==
    Let(column[layer[i] + 1], LAMBDA col :
    Let(CHOOSE p \in 1..Len(col) : col[p] = i, LAMBDA pos :
    Let(nodePaddingValue(st), LAMBDA py :
    Let(sumSeq(Tuple([q \in 1..(pos - 1) |-> height[col[q]] + py])), LAMBDA stacked :
    Let(sumSeq(Tuple([q \in 1..Len(col) |-> height[col[q]] + py])), LAMBDA used :
    Let(MarginLeft + (layer[i] * (chartWidthOf(st) - MarginRight - MarginLeft - nodeWidthOf(st)))
                     \div (x - 1), LAMBDA nx0 :
    Let(MarginTop + stacked
        + ((chartHeightOf(st) - MarginBottom - (MarginTop + used) + py) * pos) \div (Len(col) + 1),
        LAMBDA ny0 :
        [name |-> g.nodes[i].name,
         layer |-> layer[i],
         x0 |-> nx0,
         x1 |-> nx0 + nodeWidthOf(st),
         y0 |-> ny0,
         y1 |-> ny0 + height[i],
         value |-> value[i]])))))))

\* sankeyLayout(graph): one record per node, in node-list order.
sankeyLayout(g, st) ==
    Let(computeNodeDepths(g), LAMBDA d :
    Let(nodeValues(g), LAMBDA value :
    Let(nodeLayers(g, d), LAMBDA layer :
    Let(layerColumns(layer, d.columns), LAMBDA column :
    Let(columnScale(column, value, chartHeightOf(st) - MarginBottom - MarginTop,
                    nodePaddingValue(st)), LAMBDA ky :
    Let(nodeHeights(value, ky), LAMBDA height :
        Tuple([i \in 1..Len(g.nodes) |->
                  nodeBox(g, st, d.columns, layer, column, height, value, i)])))))))

\* validRows (App.tsx 731-734, SankeyChart.tsx 49).
validRowsOf(rs) == filterValid(rs)

\* The graph laid out for the current rows and settings (SankeyChart.tsx
\* 52, 136-139); the empty sequence when no valid row exists.
layoutNodes(rs, st) ==
    Let(validRowsOf(rs), LAMBDA valid :
        IF valid = <<>> THEN <<>>
        ELSE Let(prepareNodesAndLinks(valid), LAMBDA g : sankeyLayout(g, st)))

nodeByName(ln, name) == ln[CHOOSE i \in 1..Len(ln) : ln[i].name = name]

nodeNames(rs) ==
    Let(validRowsOf(rs), LAMBDA valid :
        IF valid = <<>> THEN {} ELSE Range(collectNodeNames(valid, <<>>)))

(***************************************************************************)
(* Offsets and clamping (SankeyChart.tsx 143-196, 223-226).  Raw offsets   *)
(* are pixels; boxes and clamped offsets are in geometry units.            *)
(***************************************************************************)
\* getRawOffset: the stored offset plus the live drag delta of that node.
getRawOffset(st, nodeName, dragOverride) ==
    Let(getNodeSettings(st, nodeName), LAMBDA ns :
        IF IsSome(dragOverride) /\ TheValue(dragOverride).nodeName = nodeName
        THEN [x |-> OrDefault(ns.offsetX, 0) + TheValue(dragOverride).deltaX,
              y |-> OrDefault(ns.offsetY, 0) + TheValue(dragOverride).deltaY]
        ELSE [x |-> OrDefault(ns.offsetX, 0), y |-> OrDefault(ns.offsetY, 0)])

toUnits(off) == [x |-> off.x * Unit, y |-> off.y * Unit]

\* nodeScale = settings.linkWidthScale || 1 (numerator over ScaleDen).
nodeScaleOf(st) == OrDefault(Some(st.linkWidthScale), DefaultLinkWidthScale)

\* height = max(minNodeHeight, (y1 - y0) * nodeScale), in units.
scaledHeight(st, node) ==
    Max2(MinNodeHeight * Unit, ((node.y1 - node.y0) * nodeScaleOf(st) * Unit) \div ScaleDen)

\* getScaledNodeBoxWithOffset: height scaled about the centre, minimum 8 px.
getScaledNodeBoxWithOffset(st, node, offset) ==
    Let((node.y0 + node.y1) * (Unit \div 2), LAMBDA center :
    Let(scaledHeight(st, node), LAMBDA height :
        [x0 |-> node.x0 * Unit + offset.x,
         x1 |-> node.x1 * Unit + offset.x,
         y0 |-> center - height \div 2 + offset.y,
         y1 |-> center + height \div 2 + offset.y,
         height |-> height,
         centerY |-> center + offset.y]))

\* The limits of the canvas interior, in units.
interiorLeft(st) == MarginLeft * Unit
interiorRight(st) == (chartWidthOf(st) - MarginRight) * Unit
interiorTop(st) == MarginTop * Unit
interiorBottom(st) == (chartHeightOf(st) - MarginBottom) * Unit

\* The four margin tests of getClampedOffset (lines 178-195) on a raw offset:
\* each test reads the box of the raw offset and adjusts the running value.
clampRaw(st, node, raw) ==
    Let(getScaledNodeBoxWithOffset(st, node, raw), LAMBDA box :
        [x |-> raw.x
               + (IF box.x0 < interiorLeft(st) THEN interiorLeft(st) - box.x0 ELSE 0)
               - (IF box.x1 > interiorRight(st) THEN box.x1 - interiorRight(st) ELSE 0),
         y |-> raw.y
               + (IF box.y0 < interiorTop(st) THEN interiorTop(st) - box.y0 ELSE 0)
               - (IF box.y1 > interiorBottom(st) THEN box.y1 - interiorBottom(st) ELSE 0)])

getClampedOffset(st, node, dragOverride) ==
    Let(toUnits(getRawOffset(st, node.name, dragOverride)), LAMBDA raw :
        clampRaw(st, node, raw))

getScaledNodeBox(st, node, dragOverride) ==
    Let(getClampedOffset(st, node, dragOverride), LAMBDA offset :
        getScaledNodeBoxWithOffset(st, node, offset))

(***************************************************************************)
(* Parent groups (App.tsx 304-329, used through buildParentGroups at 964). *)
(***************************************************************************)
\* The value Infinity in the amount of a row, and Number.isFinite on the
\* amounts of a row (a row of the chart carries no NaN: NaN > 0 is false).
Infinity == 1000000000
NumberIsFinite(v) == v # Infinity

emptyParentGroups == [parentByNode |-> <<>>, parentChildren |-> <<>>, bestValue |-> <<>>]

\* Map.get(key) || [] on a map of lists.
listOf(map, key) == IF key \in DOMAIN map THEN map[key] ELSE <<>>

\* A step in which a later row of equal amount replaces the parent.
parentStepLastWins(acc, source, target, currentValue) ==
    Let(target \notin DOMAIN acc.bestValue \/ currentValue >= acc.bestValue[target],
        LAMBDA better :
        [parentByNode |-> IF better THEN withEntry(acc.parentByNode, target, source)
                          ELSE acc.parentByNode,
         parentChildren |-> IF target \in Range(listOf(acc.parentChildren, source))
                            THEN acc.parentChildren
                            ELSE withEntry(acc.parentChildren, source,
                                           Append(listOf(acc.parentChildren, source), target)),
         bestValue |-> IF better THEN withEntry(acc.bestValue, target, currentValue)
                       ELSE acc.bestValue])

\* The body of rows.forEach for one row with non-empty trimmed names.
parentStep(acc, source, target, currentValue) ==
    Let(target \notin DOMAIN acc.bestValue \/ currentValue > acc.bestValue[target],
        LAMBDA better :
        [parentByNode |-> IF better THEN withEntry(acc.parentByNode, target, source)
                          ELSE acc.parentByNode,
         parentChildren |-> IF target \in Range(listOf(acc.parentChildren, source))
                            THEN acc.parentChildren
                            ELSE withEntry(acc.parentChildren, source,
                                           Append(listOf(acc.parentChildren, source), target)),
         bestValue |-> IF better THEN withEntry(acc.bestValue, target, currentValue)
                       ELSE acc.bestValue])

RECURSIVE parentSweep(_, _)
parentSweep(rs, acc) ==
    IF rs = <<>> THEN acc
    ELSE Let(trim(Head(rs).source), LAMBDA source :
         Let(trim(Head(rs).target), LAMBDA target :
             IF source = <<>> \/ target = <<>> THEN parentSweep(Tail(rs), acc)
             ELSE Let(parentStep(acc, source, target,
                                 IF NumberIsFinite(Head(rs).currentPeriod)
                                 THEN Head(rs).currentPeriod ELSE 0), LAMBDA acc2 :
                      parentSweep(Tail(rs), acc2))))

buildParentGroups(rs) == parentSweep(rs, emptyParentGroups)

\* parentGroups = buildParentGroups(validRows)
parentGroups(rs) == Let(validRowsOf(rs), LAMBDA valid : buildParentGroups(valid))

(***************************************************************************)
(* layoutColumns (App.tsx 901-962): the column of every node and, per      *)
(* column, the names sorted by visualY = y0 + stored offsetY, then name.   *)
(***************************************************************************)
visualY(st, node) == node.y0 + OrDefault(getNodeSettings(st, node.name).offsetY, 0)

columnBefore(st, a, b) ==
    IF visualY(st, a) # visualY(st, b) THEN visualY(st, a) < visualY(st, b)
    ELSE localeLess(a.name, b.name)

RECURSIVE sortColumn(_, _)
sortColumn(st, S) ==
    IF S = {} THEN <<>>
    ELSE Let(CHOOSE m \in S : \A o \in S \ {m} : columnBefore(st, m, o), LAMBDA m :
         <<m.name>> \o sortColumn(st, S \ {m}))

\* A column map that shifts the column of a node with its horizontal offset.
layoutColumnsByDrawnX(rs, st) ==
    Let(layoutNodes(rs, st), LAMBDA ln :
    Let([i \in 1..Len(ln) |->
            ln[i].layer + OrDefault(getNodeSettings(st, ln[i].name).offsetX, 0) \div 10],
        LAMBDA key :
        [columnByName |-> [name \in {ln[i].name : i \in 1..Len(ln)} |->
                              key[CHOOSE i \in 1..Len(ln) : ln[i].name = name]],
         columns |-> [k \in {key[i] : i \in 1..Len(ln)} |->
                         sortColumn(st, {ln[i] : i \in {j \in 1..Len(ln) : key[j] = k}})]]))

layoutColumns(rs, st) ==
    Let(layoutNodes(rs, st), LAMBDA ln :
        [columnByName |-> [name \in {ln[i].name : i \in 1..Len(ln)} |->
                              nodeByName(ln, name).layer],
         columns |-> [key \in {ln[i].layer : i \in 1..Len(ln)} |->
                         sortColumn(st, {ln[i] : i \in {j \in 1..Len(ln) : ln[j].layer = key}})]])

(***************************************************************************)
(* getSiblingOrder and moveNodeByDirection (App.tsx 966-1031).             *)
(***************************************************************************)
\* The rank the comparator of getSiblingOrder gives a name.
siblingRank(childrenOrder, siblingsInColumn, name) ==
    IF name \in DOMAIN childrenOrder THEN childrenOrder[name]
    ELSE (CHOOSE i \in 1..Len(siblingsInColumn) : siblingsInColumn[i] = name) - 1

siblingBefore(childrenOrder, siblingsInColumn, a, b) ==
    IF siblingRank(childrenOrder, siblingsInColumn, a)
           # siblingRank(childrenOrder, siblingsInColumn, b)
    THEN siblingRank(childrenOrder, siblingsInColumn, a)
             < siblingRank(childrenOrder, siblingsInColumn, b)
    ELSE localeLess(a, b)

RECURSIVE sortSiblings(_, _, _)
sortSiblings(childrenOrder, siblingsInColumn, S) ==
    IF S = {} THEN <<>>
    ELSE Let(CHOOSE m \in S :
                 \A o \in S \ {m} : siblingBefore(childrenOrder, siblingsInColumn, m, o),
             LAMBDA m : <<m>> \o sortSiblings(childrenOrder, siblingsInColumn, S \ {m}))

\* parentSettings?.childrenOrder || {}
childrenOrderOf(st, parent) ==
    IF IsSome(getNodeSettings(st, parent).childrenOrder)
    THEN TheValue(getNodeSettings(st, parent).childrenOrder) ELSE <<>>

\* The names of a column list that pass the sibling filter.
siblingsInColumnOf(columnList, siblings) ==
    SelectSeq(columnList, LAMBDA name : name \in Range(siblings))

\* The tail of getSiblingOrder (App.tsx 974-1000), from the column list on.
orderInColumn(st, parent, siblings, columnList) ==
    Let(siblingsInColumnOf(columnList, siblings), LAMBDA siblingsInColumn :
        IF Len(columnList) <= 1 THEN None
        ELSE IF Len(siblingsInColumn) <= 1 THEN None
        ELSE Let(childrenOrderOf(st, parent), LAMBDA childrenOrder :
                 Some([parent |-> parent,
                       order |-> sortSiblings(childrenOrder, siblingsInColumn,
                                              Range(siblingsInColumn))])))

\* getSiblingOrder: None for null, else Some([parent, order]).
getSiblingOrder(rs, st, nodeName) ==
    Let(parentGroups(rs), LAMBDA pg :
        IF nodeName \notin DOMAIN pg.parentByNode THEN None
        ELSE IF Len(listOf(pg.parentChildren, pg.parentByNode[nodeName])) <= 1 THEN None
        ELSE Let(layoutColumns(rs, st), LAMBDA lc :
                 IF nodeName \notin DOMAIN lc.columnByName THEN None
                 ELSE Let(lc.columns[lc.columnByName[nodeName]], LAMBDA columnList :
                          orderInColumn(st, pg.parentByNode[nodeName],
                                        listOf(pg.parentChildren, pg.parentByNode[nodeName]),
                                        columnList))))

indexOf(seq, x) ==
    IF x \in Range(seq) THEN (CHOOSE i \in 1..Len(seq) : seq[i] = x) - 1 ELSE -1

\* updatedOrder: the order with the entries at idx and targetIdx exchanged.
swapped(siblingOrder, idx, targetIdx) ==
    Tuple([i \in 1..Len(siblingOrder) |->
              IF i = targetIdx + 1 THEN siblingOrder[idx + 1]
              ELSE IF i = idx + 1 THEN siblingOrder[targetIdx + 1]
              ELSE siblingOrder[i]])

\* The setSettings updater of moveNodeByDirection (App.tsx 1018-1030).
withChildrenOrder(prev, parent, updatedOrder) ==
    Let(childrenOrderOf(prev, parent), LAMBDA old :
        [prev EXCEPT !.nodeSettings =
            withEntry(prev.nodeSettings, parent,
                [getNodeSettings(prev, parent) EXCEPT !.childrenOrder =
                    Some([name \in (DOMAIN old) \cup Range(updatedOrder) |->
                             IF name \in Range(updatedOrder)
                             THEN indexOf(updatedOrder, name)
                             ELSE old[name]])])])

\* A move that takes the neighbour above for both directions.
moveWithinAlwaysUp(st, siblingInfo, nodeName, direction) ==
    IF ~IsSome(siblingInfo) THEN st
    ELSE Let(TheValue(siblingInfo).order, LAMBDA siblingOrder :
         Let(indexOf(siblingOrder, nodeName), LAMBDA idx :
             IF idx = -1 THEN st
             ELSE IF idx - 1 < 0 THEN st
             ELSE withChildrenOrder(st, TheValue(siblingInfo).parent,
                                    swapped(siblingOrder, idx, idx - 1))))

\* The settings after moveNodeByDirection(nodeName, direction), given what
\* getSiblingOrder returned.
moveWithin(st, siblingInfo, nodeName, direction) ==
    IF ~IsSome(siblingInfo) THEN st
    ELSE Let(TheValue(siblingInfo).order, LAMBDA siblingOrder :
         Let(indexOf(siblingOrder, nodeName), LAMBDA idx :
         Let(IF direction = "up" THEN idx - 1 ELSE idx + 1, LAMBDA targetIdx :
             IF idx = -1 THEN st
             ELSE IF targetIdx < 0 \/ targetIdx >= Len(siblingOrder) THEN st
             ELSE withChildrenOrder(st, TheValue(siblingInfo).parent,
                                    swapped(siblingOrder, idx, targetIdx)))))

\* An availability that offers move-down on the last sibling as well.
getMoveAvailabilityInclusive(rs, st, nodeName) ==
    IF ~IsSome(nodeName) THEN [canMoveUp |-> FALSE, canMoveDown |-> FALSE]
    ELSE Let(getSiblingOrder(rs, st, TheValue(nodeName)), LAMBDA siblingInfo :
         IF ~IsSome(siblingInfo) THEN [canMoveUp |-> FALSE, canMoveDown |-> FALSE]
         ELSE Let(indexOf(TheValue(siblingInfo).order, TheValue(nodeName)), LAMBDA idx :
              [canMoveUp |-> idx > 0,
               canMoveDown |-> idx >= 0 /\ idx < Len(TheValue(siblingInfo).order)]))

\* getMoveAvailability (App.tsx 1033-1042) for an optional node name.
getMoveAvailability(rs, st, nodeName) ==
    IF ~IsSome(nodeName) THEN [canMoveUp |-> FALSE, canMoveDown |-> FALSE]
    ELSE Let(getSiblingOrder(rs, st, TheValue(nodeName)), LAMBDA siblingInfo :
         IF ~IsSome(siblingInfo) THEN [canMoveUp |-> FALSE, canMoveDown |-> FALSE]
         ELSE Let(indexOf(TheValue(siblingInfo).order, TheValue(nodeName)), LAMBDA idx :
              [canMoveUp |-> idx > 0,
               canMoveDown |-> idx >= 0 /\ idx < Len(TheValue(siblingInfo).order) - 1]))

moveNodeByDirection(rs, st, nodeName, direction) ==
    Let(getSiblingOrder(rs, st, nodeName), LAMBDA siblingInfo :
        moveWithin(st, siblingInfo, nodeName, direction))

(***************************************************************************)
(* The balance checker (BalanceSummary, src/unnamed/part_001 22-89).       *)
(* A period value is a record: a finite number, held exactly in units of   *)
(* 1/2000, or a non-finite one (NaN, Infinity).  Floating-point rounding   *)
(* of the sums is not modelled.                                            *)
(***************************************************************************)
\* epsilon = 0.001 (part_001 78) in units of 1/2000.
Epsilon == 2
finite(v) == [finite |-> TRUE, value |-> v]
notFinite == [finite |-> FALSE, value |-> 0]
\* Infinity (sign 1) and -Infinity (sign -1); notFinite stands for NaN.
infinite(sign) == [finite |-> FALSE, value |-> sign]
\* n + h/2000 as a period value.
amount(n, h) == finite(n * 2000 + h)
Abs(v) == IF v < 0 THEN 0 - v ELSE v

emptyBalances == [balances |-> <<>>, problems |-> <<>>]

newBalance(name) ==
    [name |-> name, currentIn |-> 0, currentOut |-> 0, previousIn |-> 0,
     previousOut |-> 0, hasIn |-> FALSE, hasOut |-> FALSE]

\* if (!balances.has(name)) balances.set(name, {...}).
ensureBalance(balances, name) ==
    IF \E i \in 1..Len(balances) : balances[i].name = name THEN balances
    ELSE Append(balances, newBalance(name))

\* balances.get(source).currentOut += current, ... (part_001 53-55).
addOut(balances, name, current, previous) ==
    Tuple([i \in 1..Len(balances) |->
        IF balances[i].name = name
        THEN [balances[i] EXCEPT !.currentOut = @ + current, !.previousOut = @ + previous,
                                 !.hasOut = TRUE]
        ELSE balances[i]])

\* balances.get(target).currentIn += current, ... (part_001 56-58).
addIn(balances, name, current, previous) ==
    Tuple([i \in 1..Len(balances) |->
        IF balances[i].name = name
        THEN [balances[i] EXCEPT !.currentIn = @ + current, !.previousIn = @ + previous,
                                 !.hasIn = TRUE]
        ELSE balances[i]])

aggregateRow(balances, source, target, current, previous) ==
    Let(ensureBalance(ensureBalance(balances, source), target), LAMBDA withNodes :
    Let(addOut(withNodes, source, current, previous), LAMBDA withOut :
        addIn(withOut, target, current, previous)))

\* The body of rows.forEach((row, index) => ...) (part_001 26-59).
balanceRow(acc, row, index) ==
    Let(trim(row.source), LAMBDA source :
    Let(trim(row.target), LAMBDA target :
        IF source = <<>> \/ target = <<>>
        THEN [acc EXCEPT !.problems = Append(@, [row |-> index + 1, kind |-> "missing"])]
        ELSE IF ~row.currentPeriod.finite \/ ~row.previousPeriod.finite
        THEN [acc EXCEPT !.problems = Append(@, [row |-> index + 1, kind |-> "numbers"])]
        ELSE [balances |-> aggregateRow(acc.balances, source, target,
                              row.currentPeriod.value, row.previousPeriod.value),
              problems |-> IF row.currentPeriod.value < 0 \/ row.previousPeriod.value < 0
                           THEN Append(acc.problems,
                                       [row |-> index + 1, kind |-> "negative"])
                           ELSE acc.problems]))

RECURSIVE balanceRows(_, _, _)
balanceRows(acc, rs, index) ==
    IF index >= Len(rs) THEN acc
    ELSE Let(balanceRow(acc, rs[index + 1], index), LAMBDA next :
             balanceRows(next, rs, index + 1))

\* An imbalance test that looks at the current period only.
isImbalancedCurrentOnly(node) == Abs(node.currentIn - node.currentOut) > Epsilon

\* The filter of imbalancedNodes (part_001 80-84).
isImbalanced(node) ==
    \/ Abs(node.currentIn - node.currentOut) > Epsilon
    \/ Abs(node.previousIn - node.previousOut) > Epsilon

\* What BalanceSummary computes from the rows (part_001 22-84).
balanceSummary(rs) ==
    Let(balanceRows(emptyBalances, rs, 0), LAMBDA acc :
    Let(acc.balances, LAMBDA nodeBalances :
    Let(SelectSeq(nodeBalances, LAMBDA node : node.hasOut /\ ~node.hasIn), LAMBDA sourceNodes :
    Let(SelectSeq(nodeBalances, LAMBDA node : node.hasIn /\ ~node.hasOut), LAMBDA sinkNodes :
    Let(SelectSeq(nodeBalances, LAMBDA node : node.hasIn /\ node.hasOut),
        LAMBDA intermediateNodes :
        [nodeBalances |-> nodeBalances,
         issues |-> acc.problems,
         sourceNodes |-> sourceNodes,
         sinkNodes |-> sinkNodes,
         sourceTotals |->
             [current |-> sumSeq(Tuple([i \in 1..Len(sourceNodes) |-> sourceNodes[i].currentOut])),
              previous |-> sumSeq(Tuple([i \in 1..Len(sourceNodes) |-> sourceNodes[i].previousOut]))],
         sinkTotals |->
             [current |-> sumSeq(Tuple([i \in 1..Len(sinkNodes) |-> sinkNodes[i].currentIn])),
              previous |-> sumSeq(Tuple([i \in 1..Len(sinkNodes) |-> sinkNodes[i].previousIn]))],
         intermediateNodes |-> intermediateNodes,
         imbalancedNodes |-> SelectSeq(intermediateNodes, isImbalanced)])))))

\* A table row as graph construction reads it: of a period it only asks
\* `> 0`, which is false for NaN and -Infinity and true for Infinity, and
\* copies the value into the link.
plainRow(row) ==
    [source |-> row.source, target |-> row.target,
     currentPeriod |-> row.currentPeriod.value,
     previousPeriod |-> row.previousPeriod.value]
plainRows(rs) == Tuple([i \in 1..Len(rs) |-> plainRow(rs[i])])

(***************************************************************************)
(* Inputs.                                                                 *)
(***************************************************************************)
Row(source, target, currentPeriod, previousPeriod) ==
    [source |-> source, target |-> target,
     currentPeriod |-> currentPeriod, previousPeriod |-> previousPeriod]

NameA == <<65>>
NameB == <<66>>
NameC == <<67>>
NameD == <<68>>
NameP == <<80>>
NameQ == <<81>>
NameR == <<82>>
NameASpaced == <<32, 65, 32>>     \* " A "
NameBlank == <<32, 32>>           \* "  "

\* Name fragments for the classifier: mixed case, with and without terms.
FragProchie == <<1055, 1088, 1086, 1095, 1080, 1077, 32>>          \* "Прочие "
FragDohody == <<1076, 1086, 1093, 1086, 1076, 1099>>               \* "доходы"
FragVyruchkaUpper == <<1042, 1067, 1056, 1059, 1063, 1050, 1040>>  \* "ВЫРУЧКА"
FragRashody == <<1088, 1072, 1089, 1093, 1086, 1076, 1099>>        \* "расходы"
FragValovaya == <<1042, 1072, 1083, 1086, 1074, 1072, 1103, 32>>   \* "Валовая "
FragPribyl == <<1087, 1088, 1080, 1073, 1099, 1083, 1100>>         \* "прибыль"
FragEbitdaUpper == <<69, 66, 73, 84, 68, 65>>                      \* "EBITDA"
FragChistaya == <<1063, 1080, 1089, 1090, 1072, 1103, 32>>         \* "Чистая "
FragX == <<88>>                                                    \* "X"

SourceFragments == {FragProchie, FragDohody, FragVyruchkaUpper, FragRashody,
                    FragValovaya, FragPribyl}
TargetFragments == {FragPribyl, FragEbitdaUpper, FragChistaya, FragX, FragValovaya}

RECURSIVE Concatenations(_, _)
Concatenations(F, n) ==
    IF n = 0 THEN {<<>>}
    ELSE LET shorter == Concatenations(F, n - 1)
         IN  shorter \cup {a \o f : a \in shorter, f \in F}

SourceNames == Concatenations(SourceFragments, MaxFragments)
TargetNames == Concatenations(TargetFragments, MaxFragments)

\* Rows handed to the graph builder: valid, parallel, blank-named, zero and
\* negative.
RowPool ==
    {Row(NameA, NameB, 5, 3), Row(NameASpaced, NameC, 2, 1), Row(NameB, NameC, 4, 4),
     Row(NameA, NameB, 1, 2), Row(NameA, NameBlank, 3, 1), Row(NameD, NameA, 0, 1),
     Row(NameC, NameD, -1, 0), Row(<<>>, NameB, 6, 2)}

RowLists == UNION {[1..k -> RowPool] : k \in 0..MaxRows}

\* Tables of the application state.
TableMulti ==
    <<Row(NameP, NameA, 10, 9), Row(NameP, NameB, 8, 8),
      Row(NameQ, NameC, 5, 4), Row(NameP, NameC, 1, 1)>>
TableSingle == <<Row(NameA, NameB, 10, 7)>>
TableChain ==
    <<Row(NameR, NameP, 20, 18), Row(NameP, NameA, 12, 10), Row(NameP, NameB, 8, 8)>>
RowTables == {TableMulti, TableSingle, TableChain}

\* Tables the chart is rendered for: none, one without a valid row, a drawn
\* one with variants of its values and spacing, a cycle, a self-loop and rows
\* that repeat a pair.
TableInvalid == <<Row(NameA, NameB, 0, 7), Row(NameBlank, NameC, 5, 5)>>
TableCycle == <<Row(NameA, NameB, 10, 7), Row(NameB, NameA, 4, 4)>>
TableSelfLoop == <<Row(NameA, NameA, 10, 7)>>
TableRepeated ==
    <<Row(NameA, NameB, 10, 7), Row(NameA, NameC, 5, 5), Row(NameA, NameB, 3, 2)>>
RenderTables ==
    {<<>>, TableInvalid, TableSingle, <<Row(NameA, NameB, 12, 7)>>,
     <<Row(NameASpaced, NameB, 10, 7)>>, TableCycle, TableSelfLoop, TableRepeated}
\* Rows handed to buildParentGroups: equal amounts from two sources, a
\* larger and an infinite amount, a padded name and a row without source.
ParentRowPool ==
    {Row(NameP, NameA, 5, 5), Row(NameQ, NameA, 5, 5), Row(NameQ, NameA, 7, 5),
     Row(NameR, NameA, Infinity, 5), Row(NameASpaced, NameB, 3, 3),
     Row(NameP, NameB, 3, 3), Row(NameBlank, NameA, 9, 9), Row(NameR, NameB, -2, 1)}
ParentRowLists == UNION {[1..n -> ParentRowPool] : n \in 0..MaxRows}

RenderPointers == {<<601, 301>>, <<640, 180>>}
RenderScales == {20}

\* Pointer positions (px): the pointer-down position and, for the later
\* events, one below the click threshold from it, one exactly at the
\* threshold, a short move and two far moves.
StartPointers == {<<600, 300>>}
Pointers == {<<601, 301>>, <<602, 300>>, <<600, 180>>, <<1500, 1000>>, <<-300, -400>>}

\* Slider positions of linkWidthScale (numerators over ScaleDen).
LinkWidthScales == {6, 10, 20}

Directions == {"up", "down"}

\* Colour overrides of a link's source and of its target: unset, the empty
\* text of the colour field, a colour; each with the priority flag unset,
\* off and on.
\* Rows handed to the balance checker: the two tables of the examples, rows
\* that make B's outflow differ from its inflow of 10 by 0.0005, 0.001 and
\* 0.0015 or only in the previous period, and rows with a blank source, a
\* padded name, a non-finite number and a negative value.
BalanceRowPool ==
    {Row(NameA, NameB, amount(10, 0), amount(8, 0)),
     Row(NameA, NameC, amount(5, 0), amount(5, 0)),
     Row(NameA, NameB, amount(10, 0), amount(0, 0)),
     Row(NameB, NameC, amount(4, 0), amount(0, 0)),
     Row(NameB, NameC, amount(9, 1999), amount(0, 0)),
     Row(NameB, NameC, amount(9, 1998), amount(0, 0)),
     Row(NameB, NameC, amount(9, 1997), amount(0, 0)),
     Row(NameB, NameC, amount(10, 0), amount(3, 0)),
     Row(NameBlank, NameB, amount(1, 0), amount(1, 0)),
     Row(NameASpaced, NameB, amount(2, 0), amount(2, 0)),
     Row(NameA, NameB, notFinite, amount(1, 0)),
     Row(NameB, NameC, amount(0 - 5, 0), amount(1, 0))}
BalanceRowLists ==
    UNION {[1..n -> BalanceRowPool] : n \in 0..MaxBalanceRows}

\* Tables handed both to graph construction and to the balance checker: the
\* rows above and rows with a negative or non-finite previous period, an
\* infinite current period and a zero current period.
IntakeRowPool ==
    BalanceRowPool \cup
    {Row(NameA, NameB, amount(10, 0), amount(0 - 3, 0)),
     Row(NameA, NameB, amount(10, 0), notFinite),
     Row(NameA, NameC, infinite(1), amount(1, 0)),
     Row(NameA, NameC, infinite(0 - 1), amount(1, 0)),
     Row(NameC, NameB, amount(0, 0), amount(1, 0))}
IntakeRowLists ==
    UNION {[1..n -> IntakeRowPool] : n \in 0..MaxBalanceRows}

\* Pointer positions of the image gestures and of the node drags made next
\* to them: the pointer-down position, one below the click threshold from
\* it, a far move down and right, and a move up and left that would make a
\* resized image smaller than its least size.
ImageStartPointers == {<<200, 200>>}
CanvasPointers == {<<201, 200>>, <<601, 301>>, <<1500, 1000>>, <<0, 0>>}
\* Positions of a position slider of the ImageManager.
SliderValues == {0, 700}

\* nodeSettings of a link A -> B: no entries, or an entry for both ends.
StrokeNodeSettings ==
    {<<>>} \cup
    {[name \in {NameA, NameB} |->
         [emptyNodeSettings EXCEPT
             !.color = IF name = NameA THEN sc ELSE tc,
             !.linkColorPriority = IF name = NameA THEN sp ELSE tp]] :
        sc \in {None, Some(""), Some("#e91e63")},
        tc \in {None, Some(""), Some("#9c27b0")},
        sp \in {None, Some(FALSE), Some(TRUE)},
        tp \in {None, Some(FALSE), Some(TRUE)}}

(***************************************************************************)
(* Loading from localStorage (App.tsx 605-719).  A blob is absent (None)   *)
(* or holds the outcome of JSON.parse on its text: [ok |-> FALSE] when the *)
(* text does not parse, else the parsed value.  A value carries the type   *)
(* typeof reports for it.                                                  *)
(***************************************************************************)
SampleRevenue == <<1042, 1099, 1088, 1091, 1095, 1082, 1072, 32, 1086, 1090, 32, 1088, 1077, 1072, 1083, 1080, 1079, 1072, 1094, 1080, 1080>>
SampleCost == <<1057, 1077, 1073, 1077, 1089, 1090, 1086, 1080, 1084, 1086, 1089, 1090, 1100>>
SampleGross == <<1042, 1072, 1083, 1086, 1074, 1072, 1103, 32, 1087, 1088, 1080, 1073, 1099, 1083, 1100>>
SampleOther == <<1055, 1088, 1086, 1095, 1080, 1077, 32, 1076, 1086, 1093, 1086, 1076, 1099>>
SampleSelling == <<1050, 1086, 1084, 1084, 1077, 1088, 1095, 1077, 1089, 1082, 1080, 1077, 32, 1088, 1072, 1089, 1093, 1086, 1076, 1099>>
SampleAdmin == <<1059, 1087, 1088, 1072, 1074, 1083, 1077, 1085, 1095, 1077, 1089, 1082, 1080, 1077, 32, 1088, 1072, 1089, 1093, 1086, 1076, 1099>>
SampleEbitda == <<69, 66, 73, 84, 68, 65>>
SampleDepreciation == <<1040, 1084, 1086, 1088, 1090, 1080, 1079, 1072, 1094, 1080, 1103>>
SampleNet == <<1063, 1080, 1089, 1090, 1072, 1103, 32, 1087, 1088, 1080, 1073, 1099, 1083, 1100>>

\* `row-${n}`
rowId(n) == <<"row-", n>>

FlowRow(id, source, target, currentPeriod, previousPeriod) ==
    [id |-> id, source |-> source, target |-> target,
     currentPeriod |-> currentPeriod, previousPeriod |-> previousPeriod]

\* sampleData (App.tsx 607-616); the amounts in tenths.
sampleData ==
    <<FlowRow(rowId(1), SampleRevenue, SampleCost, 1505, 1402),
      FlowRow(rowId(2), SampleRevenue, SampleGross, 893, 821),
      FlowRow(rowId(3), SampleOther, SampleGross, 124, 108),
      FlowRow(rowId(4), SampleGross, SampleSelling, 256, 234),
      FlowRow(rowId(5), SampleGross, SampleAdmin, 182, 171),
      FlowRow(rowId(6), SampleGross, SampleEbitda, 579, 524),
      FlowRow(rowId(7), SampleEbitda, SampleDepreciation, 153, 142),
      FlowRow(rowId(8), SampleEbitda, SampleNet, 426, 382)>>

\* Parsed values: primitives, and objects as functions from field names.
jsString(v) == [type |-> "string", s |-> v]
jsNumber(v) == [type |-> "number", n |-> v]
jsNull == [type |-> "null"]
jsObject(fields) == [type |-> "object", fields |-> fields]
jsArray(items) == [type |-> "array", items |-> items]
unparsable == [ok |-> FALSE]
parsed(value) == [ok |-> TRUE, value |-> value]

\* typeof value.name: "undefined" for a field that is not there and for
\* every field of a primitive; typeof null is "object".
typeofField(value, name) ==
    IF value.type = "object" /\ name \in DOMAIN value.fields
    THEN (IF value.fields[name].type \in {"null", "array"} THEN "object"
          ELSE value.fields[name].type)
    ELSE "undefined"

\* JavaScript truthiness of a parsed value.
truthy(value) ==
    CASE value.type = "null" -> FALSE
      [] value.type = "number" -> value.n # 0
      [] value.type = "string" -> value.s # <<>>
      [] OTHER -> TRUE

\* The predicate of parsedRows.filter (App.tsx 645-652).
isStoredRow(row) ==
    /\ truthy(row)
    /\ typeofField(row, "id") = "string"
    /\ typeofField(row, "source") = "string"
    /\ typeofField(row, "target") = "string"
    /\ typeofField(row, "currentPeriod") = "number"
    /\ typeofField(row, "previousPeriod") = "number"

\* The FlowRow a stored row object is used as.
asFlowRow(row) ==
    FlowRow(row.fields["id"].s, row.fields["source"].s, row.fields["target"].s,
            row.fields["currentPeriod"].n, row.fields["previousPeriod"].n)

RECURSIVE filterStored(_)
filterStored(items) ==
    IF items = <<>> THEN <<>>
    ELSE IF isStoredRow(Head(items)) THEN <<asFlowRow(Head(items))>> \o filterStored(Tail(items))
    ELSE filterStored(Tail(items))

\* A load that returns the filtered array also when it is empty.
loadRowsFromStorageNoSample(blob) ==
    IF ~IsSome(blob) THEN sampleData
    ELSE IF ~TheValue(blob).ok THEN sampleData
    ELSE IF TheValue(blob).value.type # "array" THEN sampleData
    ELSE filterStored(TheValue(blob).value.items)

\* loadRowsFromStorage (App.tsx 639-662); an error of JSON.parse is caught.
loadRowsFromStorage(blob) ==
    IF ~IsSome(blob) THEN sampleData
    ELSE IF ~TheValue(blob).ok THEN sampleData
    ELSE IF TheValue(blob).value.type # "array" THEN sampleData
    ELSE Let(filterStored(TheValue(blob).value.items), LAMBDA validRows :
             IF Len(validRows) > 0 THEN validRows ELSE sampleData)

(***************************************************************************)
(* The render effect of SankeyChart (SankeyChart.tsx 46-221): the scene    *)
(* drawn into the svg element and the layout cache kept in layoutCacheRef. *)
(***************************************************************************)
\* `${source.trim()}->${target.trim()}`
linkKey(source, target) == trim(source) \o <<45, 62>> \o trim(target)

\* linkOrderIndex (SankeyChart.tsx 93-97): Map.set per valid row, so a later
\* row of the same key replaces the position of an earlier one.
linkOrderIndex(valid) ==
    [key \in {linkKey(valid[i].source, valid[i].target) : i \in 1..Len(valid)} |->
        MaxOf({i \in 1..Len(valid) : linkKey(valid[i].source, valid[i].target) = key}) - 1]

\* getLinkOrder (SankeyChart.tsx 99-103): None stands for Infinity.
getLinkOrder(valid, source, target) ==
    IF linkKey(source, target) \in DOMAIN linkOrderIndex(valid)
    THEN Some(linkOrderIndex(valid)[linkKey(source, target)])
    ELSE None

\* The comparator of node.sourceLinks.sort / node.targetLinks.sort
\* (SankeyChart.tsx 198-221) over link indices: link order, then the name of
\* the neighbour; Array.prototype.sort is stable and d3-sankey hands over the
\* links of one neighbour in link-list order.
neighbourName(g, end, k) ==
    IF end = "target" THEN g.nodes[g.links[k].target + 1].name
    ELSE g.nodes[g.links[k].source + 1].name

linkBefore(valid, g, end, a, b) ==
    Let(getLinkOrder(valid, g.nodes[g.links[a].source + 1].name,
                            g.nodes[g.links[a].target + 1].name), LAMBDA orderA :
    Let(getLinkOrder(valid, g.nodes[g.links[b].source + 1].name,
                            g.nodes[g.links[b].target + 1].name), LAMBDA orderB :
        IF orderA # orderB
        THEN orderB = None \/ (orderA # None /\ TheValue(orderA) < TheValue(orderB))
        ELSE IF neighbourName(g, end, a) # neighbourName(g, end, b)
        THEN localeLess(neighbourName(g, end, a), neighbourName(g, end, b))
        ELSE a < b))

RECURSIVE sortLinks(_, _, _, _)
sortLinks(valid, g, end, S) ==
    IF S = {} THEN <<>>
    ELSE Let(CHOOSE m \in S : \A o \in S \ {m} : linkBefore(valid, g, end, m, o),
             LAMBDA m : <<m>> \o sortLinks(valid, g, end, S \ {m}))

\* The sorted link lists of every node, as sequences of link indices.
sortedSourceLinks(valid, g) ==
    Tuple([i \in 1..Len(g.nodes) |->
              sortLinks(valid, g, "target", sourceLinks(g, i - 1))])
sortedTargetLinks(valid, g) ==
    Tuple([i \in 1..Len(g.nodes) |->
              sortLinks(valid, g, "source", targetLinks(g, i - 1))])

\* A key without the periods of the rows.
layoutKeyNamesOnly(valid, st) ==
    [rows |-> Tuple([i \in 1..Len(valid) |->
                        <<trim(valid[i].source), trim(valid[i].target)>>]),
     width |-> chartWidthOf(st),
     height |-> chartHeightOf(st),
     nodeWidth |-> nodeWidthOf(st),
     nodePadding |-> nodePaddingValue(st)]

\* layoutKey (SankeyChart.tsx 124-130).  JSON.stringify is one-to-one on the
\* finite numbers and strings of the rows, so the key is kept structured.
layoutKey(valid, st) ==
    [rows |-> Tuple([i \in 1..Len(valid) |->
                        <<trim(valid[i].source), trim(valid[i].target),
                          valid[i].currentPeriod, valid[i].previousPeriod>>]),
     width |-> chartWidthOf(st),
     height |-> chartHeightOf(st),
     nodeWidth |-> nodeWidthOf(st),
     nodePadding |-> nodePaddingValue(st)]

\* d3-sankey raises Error("circular link") when the depth sweeps do not end.
circularLink(g) == ~computeNodeDepths(g).ok

\* The graph the layout returns: the node boxes and the links.
layoutGraph(g, st) == [nodes |-> sankeyLayout(g, st), links |-> g.links]

\* What the effect draws from a graph (SankeyChart.tsx 196-330): a rectangle
\* per node, a path per link, the links of every node in sorted order.
drawScene(valid, graph) ==
    [nodes |-> graph.nodes,
     links |-> graph.links,
     sourceLinks |-> sortedSourceLinks(valid, graph),
     targetLinks |-> sortedTargetLinks(valid, graph)]

\* The svg element without children.
emptyScene == [nodes |-> <<>>, links |-> <<>>, sourceLinks |-> <<>>, targetLinks |-> <<>>]

idleChart == [rows |-> <<>>, settings |-> baseSettings, selectedNode |-> None,
              rendered |-> FALSE,
              scene |-> emptyScene, layoutCacheRef |-> None,
              recomputed |-> FALSE, raised |-> FALSE]

\* useEffect (SankeyChart.tsx 46-612) for the props rs and st on the chart c.
renderEffect(rs, st, c) ==
    Let([c EXCEPT !.rows = rs, !.settings = st, !.rendered = TRUE, !.recomputed = FALSE],
        LAMBDA kept :
    Let(filterValid(rs), LAMBDA valid :
        IF Len(rs) = 0 \/ Len(valid) = 0 THEN kept
        ELSE Let(prepareNodesAndLinks(valid), LAMBDA g :
             Let(layoutKey(valid, st), LAMBDA key :
                 IF IsSome(c.layoutCacheRef) /\ TheValue(c.layoutCacheRef).key = key
                 THEN [kept EXCEPT !.scene = drawScene(valid,
                                                       TheValue(c.layoutCacheRef).graph)]
                 ELSE IF circularLink(g)
                 THEN [kept EXCEPT !.scene = emptyScene, !.recomputed = TRUE,
                                   !.raised = TRUE]
                 ELSE Let(layoutGraph(g, st), LAMBDA graph :
                      [kept EXCEPT !.scene = drawScene(valid, graph), !.recomputed = TRUE,
                                   !.layoutCacheRef = Some([key |-> key,
                                                            graph |-> graph])])))))

\* A render of App (App.tsx 901-934, 1143-1154): the layoutColumns memo runs
\* the layout during the render, an error there unmounts the application;
\* otherwise the effect of the chart runs for the current rows and settings.
renderApp(rs, st, sel, c) ==
    Let([c EXCEPT !.selectedNode = sel], LAMBDA c1 :
    IF filterValid(rs) # <<>> /\ circularLink(prepareNodesAndLinks(filterValid(rs)))
    THEN [c1 EXCEPT !.rows = rs, !.settings = st, !.rendered = TRUE,
                    !.recomputed = FALSE, !.scene = emptyScene, !.raised = TRUE]
    ELSE renderEffect(rs, st, c1))

(***************************************************************************)
(* Initial states.                                                         *)
(***************************************************************************)
idleCls == [source |-> <<>>, target |-> <<>>, result |-> "none"]
idleBld == [rows |-> <<>>, called |-> FALSE, nodes |-> <<>>, links |-> <<>>]
zeroOffset == [x |-> 0, y |-> 0]
initOp == [op |-> "init", node |-> None, dir |-> "", delta |-> zeroOffset,
           prev |-> baseSettings]

idleStk == [settings |-> baseSettings, source |-> <<>>, target |-> <<>>,
            flowType |-> "expense", result |-> "none"]
idleBal == [rows |-> <<>>, called |-> FALSE, result |-> balanceSummary(<<>>)]
idlePar == [rows |-> <<>>, called |-> FALSE, result |-> emptyParentGroups]
idleLd == [rowsBlob |-> None, settingsBlob |-> None, called |-> FALSE,
           rows |-> <<>>, settings |-> baseSettings]

CanvasIdle ==
    /\ chart = idleChart
    /\ par = idlePar
    /\ ld = idleLd
    /\ selectedImageId = None
    /\ imageDragRef = None
    /\ imageResizeRef = None

AppIdle ==
    /\ CanvasIdle
    /\ rows = <<>>
    /\ settings = baseSettings
    /\ selectedNode = None
    /\ dragStartRef = None
    /\ dragOffsetRef = None
    /\ gestures = 0
    /\ lastOp = initOp

\* The legacy orderY migration (App.tsx 682-712) of the node settings ns for
\* the parents parentByNode: an orderY fills the gap its node has in the
\* childrenOrder of its parent.
migrateOrderY(ns, parentByNode) ==
    Let({n \in DOMAIN ns : IsSome(ns[n].orderY) /\ n \in DOMAIN parentByNode},
        LAMBDA legacy :
    Let({parentByNode[n] : n \in legacy}, LAMBDA parentOrders :
        [name \in (DOMAIN ns) \cup parentOrders |->
            IF name \in parentOrders
            THEN Let(IF name \in DOMAIN ns THEN ns[name] ELSE emptyNodeSettings,
                     LAMBDA parentSettings :
                 Let(IF IsSome(parentSettings.childrenOrder)
                     THEN TheValue(parentSettings.childrenOrder) ELSE <<>>,
                     LAMBDA old :
                     [parentSettings EXCEPT !.childrenOrder =
                         Some([child \in (DOMAIN old)
                                   \cup {n \in legacy : parentByNode[n] = name} |->
                                  IF child \in DOMAIN old THEN old[child]
                                  ELSE TheValue(ns[child].orderY)])]))
            ELSE ns[name]]))

\* A migration in which the legacy orderY replaces a stored rank.
mergeStoredSettingsOverwrite(blob, rowsForMigration) ==
    IF ~IsSome(blob) THEN baseSettings
    ELSE IF ~TheValue(blob).ok THEN baseSettings
    ELSE IF ~(truthy(TheValue(blob).value) /\ TheValue(blob).value.type = "object")
    THEN baseSettings
    ELSE Let(TheValue(blob).value.fields["nodeSettings"], LAMBDA ns :
         IF \E n \in DOMAIN ns : ns[n] = jsNull THEN baseSettings
         ELSE Let(buildParentGroups(rowsForMigration).parentByNode, LAMBDA parentByNode :
              [baseSettings EXCEPT !.nodeSettings =
                  migrateOrderY([n \in DOMAIN ns |->
                                    [ns[n] EXCEPT !.childrenOrder = None]],
                                parentByNode)]))

\* The body of loadSettingsFromStorage (App.tsx 664-719) for the settings
\* blob and the rows loaded for the migration.  Reading a field of a null
\* node settings entry is a TypeError, which the catch turns into the base
\* settings.
mergeStoredSettings(blob, rowsForMigration) ==
    IF ~IsSome(blob) THEN baseSettings
    ELSE IF ~TheValue(blob).ok THEN baseSettings
    ELSE IF ~(truthy(TheValue(blob).value) /\ TheValue(blob).value.type = "object")
    THEN baseSettings
    ELSE Let(TheValue(blob).value.fields["nodeSettings"], LAMBDA ns :
         IF \E n \in DOMAIN ns : ns[n] = jsNull THEN baseSettings
         ELSE Let(buildParentGroups(rowsForMigration).parentByNode, LAMBDA parentByNode :
              [baseSettings EXCEPT !.nodeSettings = migrateOrderY(ns, parentByNode)]))

\* loadSettingsFromStorage: the rows for the migration are loaded from the
\* rows blob (App.tsx 670).
loadSettingsFromStorage(blob, rowsBlob) ==
    mergeStoredSettings(blob, loadRowsFromStorage(rowsBlob))

\* A stored settings object with the node settings ns.
storedSettings(ns) == Some(parsed(jsObject([nodeSettings |-> ns])))

\* Elements of a stored rows array: two rows, a row whose amount is a string,
\* a row without id, a row whose previous amount is null, null and a number.
storedRow(id, source, target, currentPeriod, previousPeriod) ==
    jsObject([id |-> id, source |-> source, target |-> target,
              currentPeriod |-> currentPeriod, previousPeriod |-> previousPeriod])
StoredP == jsString(NameP)
StoredA == jsString(NameA)
StoredB == jsString(NameB)
StoredQ == jsString(NameQ)
StoredItems ==
    {storedRow(jsString(rowId(1)), StoredP, StoredA, jsNumber(10), jsNumber(9)),
     storedRow(jsString(rowId(2)), StoredQ, StoredA, jsNumber(12), jsNumber(8)),
     storedRow(jsString(rowId(3)), StoredP, StoredB, jsNumber(8), jsNumber(8)),
     storedRow(jsString(rowId(4)), StoredP, StoredB, jsString(<<49, 48>>), jsNumber(8)),
     jsObject([source |-> StoredP, target |-> StoredB,
               currentPeriod |-> jsNumber(8), previousPeriod |-> jsNumber(8)]),
     storedRow(jsString(rowId(5)), StoredQ, StoredB, jsNumber(3), jsNull),
     jsNull,
     jsNumber(5)}
RowsBlobs ==
    {None, Some(unparsable), Some(parsed(jsNull)), Some(parsed(jsNumber(5))),
     Some(parsed(jsObject([rows |-> jsArray(<<>>)])))}
        \cup {Some(parsed(jsArray(items))) :
                 items \in UNION {[1..n -> StoredItems] : n \in 0..MaxStoredRows}}

\* Settings blobs: none, text that does not parse, values that are no
\* object, a null node settings entry, and node settings with legacy
\* orderY values with and without ranks already stored for the parent.
legacyOrder(order) == [emptyNodeSettings EXCEPT !.orderY = Some(order)]
SettingsBlobs ==
    {None, Some(unparsable), Some(parsed(jsNull)), Some(parsed(jsNumber(5))),
     storedSettings([name \in {NameA} |-> jsNull]),
     storedSettings([name \in {NameA, NameB} |->
                        IF name = NameA THEN legacyOrder(2) ELSE legacyOrder(1)]),
     storedSettings([name \in {NameA, NameB, NameP} |->
                        IF name = NameA THEN legacyOrder(2)
                        ELSE IF name = NameB THEN legacyOrder(1)
                        ELSE [emptyNodeSettings EXCEPT
                                 !.offsetX = Some(30),
                                 !.childrenOrder = Some([n \in {NameA} |-> 0])]]),
     storedSettings([name \in {NameA, SampleGross, SampleCost} |->
                        IF name = NameA THEN legacyOrder(2)
                        ELSE IF name = SampleGross THEN legacyOrder(0)
                        ELSE legacyOrder(1)])}

\* The settings blob in storage when the application starts: no blob, or a
\* blob that holds an offset for one node.
StoredNodeSettings ==
    {None,
     storedSettings([name \in {NameA} |->
              [emptyNodeSettings EXCEPT !.color = Some("#e91e63"),
                                        !.labelSize = Some(14),
                                        !.valueSize = Some(12),
                                        !.linkColorPriority = Some(TRUE),
                                        !.offsetX = Some(30),
                                        !.offsetY = Some(-40)]])}

\* The application after construction (App.tsx 722-726): rows and settings
\* as loaded from storage, nothing selected.
Init ==
    /\ cls = idleCls
    /\ bld = idleBld
    /\ stk = idleStk
    /\ bal = idleBal
    /\ CanvasIdle
    /\ rows \in RowTables
    /\ settings \in {mergeStoredSettings(stored, rows) : stored \in StoredNodeSettings}
    /\ selectedNode = None
    /\ dragStartRef = None
    /\ dragOffsetRef = None
    /\ gestures = 0
    /\ lastOp = initOp

InitClassify ==
    /\ cls \in [source : SourceNames, target : TargetNames, result : {"none"}]
    /\ bld = idleBld
    /\ stk = idleStk
    /\ bal = idleBal
    /\ AppIdle

InitStroke ==
    /\ cls = idleCls
    /\ bld = idleBld
    /\ stk \in [settings : {[baseSettings EXCEPT !.nodeSettings = ns] :
                               ns \in StrokeNodeSettings},
                source : {NameA}, target : {NameB},
                flowType : FlowTypes, result : {"none"}]
    /\ bal = idleBal
    /\ AppIdle

InitBalance ==
    /\ cls = idleCls
    /\ bld = idleBld
    /\ stk = idleStk
    /\ bal \in [rows : BalanceRowLists, called : {FALSE}, result : {balanceSummary(<<>>)}]
    /\ AppIdle

\* The table is rendered by the chart and by the balance summary.
InitIntake ==
    /\ cls = idleCls
    /\ stk = idleStk
    /\ bal \in [rows : IntakeRowLists, called : {FALSE}, result : {balanceSummary(<<>>)}]
    /\ bld = [idleBld EXCEPT !.rows = plainRows(bal.rows)]
    /\ AppIdle

InitBuild ==
    /\ cls = idleCls
    /\ bld \in [rows : RowLists, called : {FALSE}, nodes : {<<>>}, links : {<<>>}]
    /\ stk = idleStk
    /\ bal = idleBal
    /\ AppIdle

(***************************************************************************)
(* Actions.                                                                *)
(***************************************************************************)
imageVars == <<selectedImageId, imageDragRef, imageResizeRef>>
appVars == <<rows, settings, selectedNode, dragStartRef, dragOffsetRef, gestures, lastOp,
             imageVars>>
callVars == <<cls, bld, stk, bal, chart, par, ld>>
loadVars == <<chart, par, ld>>

\* A call of determineFlowType.
Classify ==
    /\ cls.result = "none"
    /\ cls' = [cls EXCEPT !.result = determineFlowType(cls.source, cls.target)]
    /\ UNCHANGED <<bld, stk, bal, loadVars, appVars>>

\* A call of prepareNodesAndLinks.
Build ==
    /\ ~bld.called
    /\ LET r == prepareNodesAndLinks(bld.rows)
       IN  bld' = [bld EXCEPT !.called = TRUE, !.nodes = r.nodes, !.links = r.links]
    /\ UNCHANGED <<cls, stk, bal, loadVars, appVars>>

\* A call of buildParentGroups.
Parents ==
    /\ ~par.called
    /\ par' = [par EXCEPT !.called = TRUE, !.result = buildParentGroups(par.rows)]
    /\ UNCHANGED <<cls, bld, stk, bal, chart, ld, appVars>>

\* The two state initialisers of App: loadRowsFromStorage() and
\* loadSettingsFromStorage().
Load ==
    /\ ~ld.called
    /\ ld' = [ld EXCEPT !.called = TRUE,
                        !.rows = loadRowsFromStorage(ld.rowsBlob),
                        !.settings = loadSettingsFromStorage(ld.settingsBlob, ld.rowsBlob)]
    /\ UNCHANGED <<cls, bld, stk, bal, chart, par, appVars>>

\* BalanceSummary is rendered for the rows.
Balance ==
    /\ ~bal.called
    /\ bal' = [bal EXCEPT !.called = TRUE, !.result = balanceSummary(bal.rows)]
    /\ UNCHANGED <<cls, bld, stk, loadVars, appVars>>

\* The stroke of one link is computed when the chart is drawn.
Stroke ==
    /\ stk.result = "none"
    /\ stk' = [stk EXCEPT !.result = linkStroke(stk.settings, stk.source, stk.target,
                                                stk.flowType)]
    /\ UNCHANGED <<cls, bld, bal, loadVars, appVars>>

\* handleNodeSelect (App.tsx 820-825): the pair (selectedNode, selectedImageId)
\* after the call.
handleNodeSelect(nodeName, imageId) ==
    [node |-> nodeName, image |-> IF IsSome(nodeName) THEN None ELSE imageId]

\* handleNodeMove (App.tsx 827-839).
handleNodeMove(st, nodeName, offsetX, offsetY) ==
    [st EXCEPT !.nodeSettings =
        withEntry(st.nodeSettings, nodeName,
            [getNodeSettings(st, nodeName) EXCEPT !.offsetX = Some(offsetX),
                                                  !.offsetY = Some(offsetY)])]

\* The offset that only carries the displacement of the last gesture.
committedOffsetDeltaOnly(st, nodeName, deltaX, deltaY) ==
    [x |-> deltaX, y |-> deltaY]

\* The offset drag.on('end') hands to onNodeMove (SankeyChart.tsx 467-483).
committedOffset(st, nodeName, deltaX, deltaY) ==
    LET ns == getNodeSettings(st, nodeName)
    IN  [x |-> OrDefault(ns.offsetX, 0) + deltaX, y |-> OrDefault(ns.offsetY, 0) + deltaY]

\* A click test that also takes a displacement of exactly the threshold.
isClickInclusive(deltaX, deltaY) ==
    deltaX * deltaX + deltaY * deltaY <= ClickThreshold * ClickThreshold

\* Math.hypot(deltaX, deltaY) < 2 (SankeyChart.tsx 474-475), on the squares.
isClick(deltaX, deltaY) ==
    deltaX * deltaX + deltaY * deltaY < ClickThreshold * ClickThreshold

\* No pointer is down on a node, an image or a resize handle.
noGesture == dragStartRef = None /\ imageDragRef = None /\ imageResizeRef = None

\* drag.on('start') (SankeyChart.tsx 436-443).
DragStart(n, p) ==
    /\ noGesture
    /\ gestures < MaxGestures
    /\ n \in nodeNames(rows)
    /\ dragStartRef' = Some([x |-> p[1], y |-> p[2], nodeName |-> n])
    /\ gestures' = gestures + 1
    /\ lastOp' = [initOp EXCEPT !.op = "dragStart", !.node = Some(n), !.prev = settings]
    /\ UNCHANGED <<callVars, imageVars, rows, settings, selectedNode, dragOffsetRef>>

\* drag.on('drag') (SankeyChart.tsx 444-464): only the live offset changes;
\* the node and its links are redrawn from it.
DragMove(p) ==
    /\ dragStartRef # None
    /\ LET start == TheValue(dragStartRef)
           deltaX == p[1] - start.x
           deltaY == p[2] - start.y
       IN  /\ dragOffsetRef' = Some([nodeName |-> start.nodeName,
                                     deltaX |-> deltaX, deltaY |-> deltaY])
           /\ lastOp' = [initOp EXCEPT !.op = "dragMove", !.node = Some(start.nodeName),
                                       !.delta = [x |-> deltaX, y |-> deltaY],
                                       !.prev = settings]
    /\ UNCHANGED <<callVars, imageVars, rows, settings, selectedNode, dragStartRef, gestures>>

\* drag.on('end') (SankeyChart.tsx 465-487): a click toggles the selection,
\* a move commits the offset.
DragEnd(p) ==
    /\ dragStartRef # None
    /\ LET start == TheValue(dragStartRef)
           deltaX == p[1] - start.x
           deltaY == p[2] - start.y
           click == isClick(deltaX, deltaY)
           off == committedOffset(settings, start.nodeName, deltaX, deltaY)
       IN  /\ IF click
              THEN /\ LET sel == handleNodeSelect(IF Some(start.nodeName) = selectedNode
                                                  THEN None ELSE Some(start.nodeName),
                                                  selectedImageId)
                      IN  /\ selectedNode' = sel.node
                          /\ selectedImageId' = sel.image
                   /\ UNCHANGED settings
              ELSE /\ settings' = handleNodeMove(settings, start.nodeName, off.x, off.y)
                   /\ UNCHANGED <<selectedNode, selectedImageId>>
           /\ lastOp' = [initOp EXCEPT !.op = IF click THEN "dragEndClick" ELSE "dragEndMove",
                                       !.node = Some(start.nodeName),
                                       !.delta = [x |-> deltaX, y |-> deltaY],
                                       !.prev = settings]
    /\ dragOffsetRef' = None
    /\ dragStartRef' = None
    /\ UNCHANGED <<callVars, imageDragRef, imageResizeRef, rows, gestures>>

\* The move buttons of the node editor (App.tsx 1165-1166, 1003-1031).
MoveNode(direction) ==
    /\ selectedNode # None
    /\ dragStartRef = None
    /\ settings' = moveNodeByDirection(rows, settings, TheValue(selectedNode), direction)
    /\ lastOp' = [initOp EXCEPT !.op = "moveNode", !.node = selectedNode,
                                !.dir = direction, !.prev = settings]
    /\ UNCHANGED <<callVars, imageVars, rows, selectedNode, dragStartRef, dragOffsetRef,
                 gestures>>

\* A reset that replaces the node's settings by an empty object.
handleResetNodePositionAll(st, nodeName) ==
    [st EXCEPT !.nodeSettings = withEntry(st.nodeSettings, nodeName, emptyNodeSettings)]

\* handleResetNodePosition (App.tsx 851-863).
handleResetNodePosition(st, nodeName) ==
    [st EXCEPT !.nodeSettings =
        withEntry(st.nodeSettings, nodeName,
            [getNodeSettings(st, nodeName) EXCEPT !.offsetX = None, !.offsetY = None])]

\* The reset-position button of the node editor (NodeEditor.tsx 127,
\* App.tsx 1157-1170).
ResetNodePosition ==
    /\ selectedNode # None
    /\ dragStartRef = None
    /\ settings' = handleResetNodePosition(settings, TheValue(selectedNode))
    /\ lastOp' = [initOp EXCEPT !.op = "resetPosition", !.node = selectedNode,
                                !.prev = settings]
    /\ UNCHANGED <<callVars, imageVars, rows, selectedNode, dragStartRef, dragOffsetRef,
                   gestures>>

\* handleAppearanceChange (App.tsx 748-750) from the line-thickness slider.
AppearanceChange(scale) ==
    /\ dragStartRef = None
    /\ scale # settings.linkWidthScale
    /\ settings' = [settings EXCEPT !.linkWidthScale = scale]
    /\ lastOp' = [initOp EXCEPT !.op = "appearance", !.prev = settings]
    /\ UNCHANGED <<callVars, imageVars, rows, selectedNode, dragStartRef, dragOffsetRef,
                 gestures>>

(***************************************************************************)
(* Images on the canvas (App.tsx 869-899, SankeyChart.tsx 298-410, 606-610, *)
(* ImageManager).                                                          *)
(***************************************************************************)
\* The image the ImageManager hands to onAdd (its src is not modelled).
newImage(id) == [id |-> id, x |-> 120, y |-> 140, width |-> 160, height |-> 120]

\* `img-${Date.now()}`: an id no placed image has.  Ids of removed images
\* are no longer referred to, so the least unused number stands for it.
nextImageId(images) ==
    CHOOSE k \in 1..(Len(images) + 1) :
        /\ \A i \in 1..Len(images) : images[i].id # k
        /\ \A j \in 1..(k - 1) : \E i \in 1..Len(images) : images[i].id = j

imageById(images, id) == images[CHOOSE i \in 1..Len(images) : images[i].id = id]

\* handleImageAdd (App.tsx 869-875): the settings after the call; the call
\* also sets selectedImageId to the new id.
handleImageAdd(st, image) == [st EXCEPT !.images = Append(st.images, image)]

\* An update that replaces the image by the updates alone.
handleImageUpdateReplace(st, id, updates) ==
    [st EXCEPT !.images =
        Tuple([i \in 1..Len(st.images) |->
            IF st.images[i].id = id
            THEN [k \in DOMAIN st.images[i] |->
                     IF k \in DOMAIN updates THEN updates[k] ELSE 0]
            ELSE st.images[i]])]

\* handleImageUpdate (App.tsx 877-882): { ...image, ...updates } for the image
\* with the id.
handleImageUpdate(st, id, updates) ==
    [st EXCEPT !.images =
        Tuple([i \in 1..Len(st.images) |->
            IF st.images[i].id = id
            THEN [k \in DOMAIN st.images[i] |->
                     IF k \in DOMAIN updates THEN updates[k] ELSE st.images[i][k]]
            ELSE st.images[i]])]

\* handleImageRemove (App.tsx 884-892): the settings after the call.
handleImageRemove(st, id) ==
    [st EXCEPT !.images = SelectSeq(st.images, LAMBDA image : image.id # id)]

\* handleImageSelect (App.tsx 894-899): the pair (selectedNode,
\* selectedImageId) after the call.
handleImageSelect(id, nodeName) ==
    [node |-> IF IsSome(id) THEN None ELSE nodeName, image |-> id]

\* The file input of the ImageManager has read an image.
ImageAdd ==
    /\ noGesture
    /\ Len(settings.images) < MaxImages
    /\ LET image == newImage(nextImageId(settings.images))
       IN  /\ settings' = handleImageAdd(settings, image)
           /\ selectedImageId' = Some(image.id)
    /\ lastOp' = [initOp EXCEPT !.op = "imageAdd", !.prev = settings]
    /\ UNCHANGED <<callVars, rows, selectedNode, dragStartRef, dragOffsetRef, gestures,
                   imageDragRef, imageResizeRef>>

\* The remove button of an image in the ImageManager list.
ImageRemove(id) ==
    /\ noGesture
    /\ settings' = handleImageRemove(settings, id)
    /\ selectedImageId' = IF selectedImageId = Some(id) THEN None ELSE selectedImageId
    /\ lastOp' = [initOp EXCEPT !.op = "imageRemove", !.prev = settings]
    /\ UNCHANGED <<callVars, rows, selectedNode, dragStartRef, dragOffsetRef, gestures,
                   imageDragRef, imageResizeRef>>

\* The select button of an image in the ImageManager list.
ImageSelect(id) ==
    /\ noGesture
    /\ LET sel == handleImageSelect(Some(id), selectedNode)
       IN  /\ selectedNode' = sel.node
           /\ selectedImageId' = sel.image
    /\ lastOp' = [initOp EXCEPT !.op = "imageSelect", !.prev = settings]
    /\ UNCHANGED <<callVars, rows, settings, dragStartRef, dragOffsetRef, gestures,
                   imageDragRef, imageResizeRef>>

\* svg.on('click') (SankeyChart.tsx 606-610): onImageSelect(null), then
\* onNodeSelect(null).
CanvasClick ==
    /\ noGesture
    /\ LET first == handleImageSelect(None, selectedNode)
           second == handleNodeSelect(None, first.image)
       IN  /\ selectedNode' = second.node
           /\ selectedImageId' = second.image
    /\ lastOp' = [initOp EXCEPT !.op = "canvasClick", !.prev = settings]
    /\ UNCHANGED <<callVars, rows, settings, dragStartRef, dragOffsetRef, gestures,
                   imageDragRef, imageResizeRef>>

\* The position sliders of the ImageManager, shown for the selected image
\* (min 0, max Math.max(400, chartWidth) and Math.max(300, chartHeight)).
ImageSlide(axis, value) ==
    /\ noGesture
    /\ gestures < MaxGestures
    /\ selectedImageId # None
    /\ \E i \in 1..Len(settings.images) : settings.images[i].id = TheValue(selectedImageId)
    /\ value >= 0
    /\ value <= IF axis = "x" THEN Max2(400, chartWidthOf(settings))
                ELSE Max2(300, chartHeightOf(settings))
    /\ settings' = handleImageUpdate(settings, TheValue(selectedImageId),
                                     [k \in {axis} |-> value])
    /\ gestures' = gestures + 1
    /\ lastOp' = [initOp EXCEPT !.op = "imageSlide", !.prev = settings]
    /\ UNCHANGED <<callVars, rows, selectedNode, selectedImageId, dragStartRef,
                   dragOffsetRef, imageDragRef, imageResizeRef>>

\* imageDrag.on('start') (SankeyChart.tsx 331-340).
ImageDragStart(id, p) ==
    /\ noGesture
    /\ gestures < MaxGestures
    /\ LET d == imageById(settings.images, id)
       IN  imageDragRef' = Some([id |-> id, startX |-> p[1], startY |-> p[2],
                                 x |-> d.x, y |-> d.y])
    /\ gestures' = gestures + 1
    /\ lastOp' = [initOp EXCEPT !.op = "imageDragStart", !.prev = settings]
    /\ UNCHANGED <<callVars, rows, settings, selectedNode, selectedImageId, dragStartRef,
                   dragOffsetRef, imageResizeRef>>

\* A drag handler that stores the position on every pointer-move.
ImageDragMoveStoring(p) ==
    /\ imageDragRef # None
    /\ LET ref == TheValue(imageDragRef)
       IN  settings' = handleImageUpdate(settings, ref.id,
                           [k \in {"x", "y"} |-> IF k = "x" THEN ref.x + p[1] - ref.startX
                                                 ELSE ref.y + p[2] - ref.startY])
    /\ lastOp' = [initOp EXCEPT !.op = "imageDragMove", !.prev = settings]
    /\ UNCHANGED <<callVars, rows, selectedNode, selectedImageId, dragStartRef,
                   dragOffsetRef, gestures, imageDragRef, imageResizeRef>>

\* imageDrag.on('drag') (SankeyChart.tsx 341-348): only the transform of the
\* drawn group changes.
ImageDragMove(p) ==
    /\ imageDragRef # None
    /\ lastOp' = [initOp EXCEPT !.op = "imageDragMove",
                     !.delta = [x |-> p[1] - TheValue(imageDragRef).startX,
                                y |-> p[2] - TheValue(imageDragRef).startY],
                     !.prev = settings]
    /\ UNCHANGED <<callVars, rows, settings, selectedNode, selectedImageId, dragStartRef,
                   dragOffsetRef, gestures, imageDragRef, imageResizeRef>>

\* imageDrag.on('end') (SankeyChart.tsx 349-362).
ImageDragEnd(p) ==
    /\ imageDragRef # None
    /\ LET ref == TheValue(imageDragRef)
           deltaX == p[1] - ref.startX
           deltaY == p[2] - ref.startY
           sel == handleImageSelect(Some(ref.id), selectedNode)
       IN  /\ IF isClick(deltaX, deltaY)
              THEN /\ selectedNode' = sel.node
                   /\ selectedImageId' = sel.image
                   /\ UNCHANGED settings
              ELSE /\ settings' = handleImageUpdate(settings, ref.id,
                          [k \in {"x", "y"} |-> IF k = "x" THEN ref.x + deltaX
                                                ELSE ref.y + deltaY])
                   /\ UNCHANGED <<selectedNode, selectedImageId>>
           /\ lastOp' = [initOp EXCEPT !.op = "imageDragEnd",
                                       !.delta = [x |-> deltaX, y |-> deltaY],
                                       !.prev = settings]
    /\ imageDragRef' = None
    /\ UNCHANGED <<callVars, rows, dragStartRef, dragOffsetRef, gestures, imageResizeRef>>

\* resizeDrag.on('start') (SankeyChart.tsx 379-388), on the handle of the
\* selected image.
ResizeStart(p) ==
    /\ noGesture
    /\ gestures < MaxGestures
    /\ selectedImageId # None
    /\ \E i \in 1..Len(settings.images) : settings.images[i].id = TheValue(selectedImageId)
    /\ LET d == imageById(settings.images, TheValue(selectedImageId))
       IN  imageResizeRef' = Some([id |-> d.id, startX |-> p[1], startY |-> p[2],
                                   width |-> d.width, height |-> d.height])
    /\ gestures' = gestures + 1
    /\ lastOp' = [initOp EXCEPT !.op = "resizeStart", !.prev = settings]
    /\ UNCHANGED <<callVars, rows, settings, selectedNode, selectedImageId, dragStartRef,
                   dragOffsetRef, imageDragRef>>

\* resizeDrag.on('drag') (SankeyChart.tsx 389-401): only the drawn size
\* changes.
ResizeMove(p) ==
    /\ imageResizeRef # None
    /\ lastOp' = [initOp EXCEPT !.op = "resizeMove",
                     !.delta = [x |-> p[1] - TheValue(imageResizeRef).startX,
                                y |-> p[2] - TheValue(imageResizeRef).startY],
                     !.prev = settings]
    /\ UNCHANGED <<callVars, rows, settings, selectedNode, selectedImageId, dragStartRef,
                   dragOffsetRef, gestures, imageDragRef, imageResizeRef>>

\* resizeDrag.on('end') (SankeyChart.tsx 402-410).
ResizeEnd(p) ==
    /\ imageResizeRef # None
    /\ LET ref == TheValue(imageResizeRef)
           deltaX == p[1] - ref.startX
           deltaY == p[2] - ref.startY
       IN  /\ settings' = handleImageUpdate(settings, ref.id,
                  [k \in {"width", "height"} |->
                      IF k = "width" THEN Max2(MinImageSize, ref.width + deltaX)
                      ELSE Max2(MinImageSize, ref.height + deltaY)])
           /\ lastOp' = [initOp EXCEPT !.op = "resizeEnd",
                                       !.delta = [x |-> deltaX, y |-> deltaY],
                                       !.prev = settings]
    /\ imageResizeRef' = None
    /\ UNCHANGED <<callVars, rows, selectedNode, selectedImageId, dragStartRef,
                   dragOffsetRef, gestures, imageDragRef>>

\* The orders handleAutoLayout can give the children of every parent: the
\* order of their centres in a d3-sankey layout without nodeSort, whose
\* relaxation sweeps are not modelled, so every order is possible.
AutoLayoutOrders(rs) ==
    Let(buildParentGroups(validRowsOf(rs)).parentChildren, LAMBDA parentChildren :
        {orders \in [DOMAIN parentChildren ->
                        UNION {[1..Len(parentChildren[p]) -> Range(parentChildren[p])] :
                                  p \in DOMAIN parentChildren}] :
            \A p \in DOMAIN parentChildren :
                /\ Len(orders[p]) = Len(parentChildren[p])
                /\ Range(orders[p]) = Range(parentChildren[p])})

\* handleAutoLayout (App.tsx 752-818): the offsets of all nodes are cleared
\* and every parent gets the ranks of its children.
handleAutoLayout(rs, st, orders) ==
    IF validRowsOf(rs) = <<>> THEN st
    ELSE Let(nodeNames(rs), LAMBDA names :
         [st EXCEPT !.nodeSettings =
             [name \in (DOMAIN st.nodeSettings) \cup names |->
                 IF name \notin names THEN st.nodeSettings[name]
                 ELSE IF name \in DOMAIN orders
                 THEN [getNodeSettings(st, name) EXCEPT
                          !.offsetX = Some(0), !.offsetY = Some(0),
                          !.childrenOrder =
                              Some([child \in Range(orders[name]) |->
                                       indexOf(orders[name], child)])]
                 ELSE [getNodeSettings(st, name) EXCEPT
                          !.offsetX = Some(0), !.offsetY = Some(0)]]])

AutoLayout(orders) ==
    /\ noGesture
    /\ validRowsOf(rows) # <<>>
    /\ settings' = handleAutoLayout(rows, settings, orders)
    /\ lastOp' = [initOp EXCEPT !.op = "autoLayout", !.prev = settings]
    /\ UNCHANGED <<callVars, imageVars, rows, selectedNode, dragStartRef, dragOffsetRef,
                   gestures>>

\* The application is mounted until a render raises an error; React runs
\* the pending effects before it handles the next event.
Mounted ==
    /\ ~chart.raised
    /\ chart.rendered
    /\ chart.rows = rows /\ chart.settings = settings /\ chart.selectedNode = selectedNode

\* DataTable onChange (App.tsx 1136-1141): setRows with the edited table.
SetRows(rs) ==
    /\ Mounted
    /\ noGesture
    /\ gestures < MaxGestures
    /\ rs # rows
    /\ rows' = rs
    /\ gestures' = gestures + 1
    /\ lastOp' = [initOp EXCEPT !.op = "setRows", !.prev = settings]
    /\ UNCHANGED <<callVars, imageVars, settings, selectedNode, dragStartRef,
                   dragOffsetRef>>

\* The render that follows a change of the rows, the settings or the
\* selection (SankeyChart.tsx 612, the dependency list of the effect).
Render ==
    /\ ~chart.raised
    /\ ~chart.rendered \/ chart.rows # rows \/ chart.settings # settings
           \/ chart.selectedNode # selectedNode
    /\ chart' = renderApp(rows, settings, selectedNode, chart)
    /\ UNCHANGED <<cls, bld, stk, bal, par, ld, appVars>>

Next ==
    \/ ResetNodePosition
    \/ \E n \in nodeNames(rows), p \in StartPointers : DragStart(n, p)
    \/ \E p \in Pointers : DragMove(p)
    \/ \E p \in Pointers : DragEnd(p)
    \/ \E direction \in Directions : MoveNode(direction)
    \/ \E scale \in LinkWidthScales : AppearanceChange(scale)

Spec == Init /\ [][Next]_vars

\* The chart with its images: the table is fixed and no node is reordered.
InitCanvas ==
    /\ cls = idleCls
    /\ bld = idleBld
    /\ stk = idleStk
    /\ bal = idleBal
    /\ CanvasIdle
    /\ rows = TableSingle
    /\ settings = baseSettings
    /\ selectedNode = None
    /\ dragStartRef = None
    /\ dragOffsetRef = None
    /\ gestures = 0
    /\ lastOp = initOp

NextCanvas ==
    \/ \E n \in nodeNames(rows), p \in StartPointers : DragStart(n, p)
    \/ \E p \in CanvasPointers : DragMove(p)
    \/ \E p \in CanvasPointers : DragEnd(p)
    \/ ImageAdd
    \/ \E i \in 1..Len(settings.images) : ImageRemove(settings.images[i].id)
    \/ \E i \in 1..Len(settings.images) : ImageSelect(settings.images[i].id)
    \/ CanvasClick
    \/ \E axis \in {"x", "y"}, value \in SliderValues : ImageSlide(axis, value)
    \/ \E i \in 1..Len(settings.images), p \in ImageStartPointers :
           ImageDragStart(settings.images[i].id, p)
    \/ \E p \in CanvasPointers : ImageDragMove(p)
    \/ \E p \in CanvasPointers : ImageDragEnd(p)
    \/ \E p \in ImageStartPointers : ResizeStart(p)
    \/ \E p \in CanvasPointers : ResizeMove(p)
    \/ \E p \in CanvasPointers : ResizeEnd(p)

SpecCanvas == InitCanvas /\ [][NextCanvas]_vars

\* The application with its chart: the table is edited, nodes are dragged,
\* reordered and reset, and every change of the rows, the settings or the
\* selection is followed by a render.
InitRender ==
    /\ cls = idleCls
    /\ bld = idleBld
    /\ stk = idleStk
    /\ bal = idleBal
    /\ ld = idleLd
    /\ par = idlePar
    /\ chart = idleChart
    /\ selectedImageId = None
    /\ imageDragRef = None
    /\ imageResizeRef = None
    /\ rows \in {TableSingle, TableRepeated}
    /\ settings = baseSettings
    /\ selectedNode = None
    /\ dragStartRef = None
    /\ dragOffsetRef = None
    /\ gestures = 0
    /\ lastOp = initOp

NextRender ==
    \/ Render
    \/ \E rs \in RenderTables : SetRows(rs)
    \/ \E n \in nodeNames(rows), p \in StartPointers : Mounted /\ DragStart(n, p)
    \/ \E p \in RenderPointers : Mounted /\ DragMove(p)
    \/ \E p \in RenderPointers : Mounted /\ DragEnd(p)
    \/ \E direction \in Directions : Mounted /\ MoveNode(direction)
    \/ Mounted /\ ResetNodePosition
    \/ \E orders \in AutoLayoutOrders(rows) : Mounted /\ AutoLayout(orders)
    \/ \E scale \in RenderScales : Mounted /\ AppearanceChange(scale)

SpecRender == InitRender /\ [][NextRender]_vars

NextClassify == Classify
SpecClassify == InitClassify /\ [][NextClassify]_vars

NextStroke == Stroke
SpecStroke == InitStroke /\ [][NextStroke]_vars

NextBalance == Balance
SpecBalance == InitBalance /\ [][NextBalance]_vars

\* The application reads its storage (App.tsx 722-723).
InitLoad ==
    /\ cls = idleCls
    /\ bld = idleBld
    /\ stk = idleStk
    /\ bal = idleBal
    /\ chart = idleChart
    /\ par = idlePar
    /\ ld \in [rowsBlob : RowsBlobs, settingsBlob : SettingsBlobs, called : {FALSE},
                rows : {<<>>}, settings : {baseSettings}]
    /\ selectedImageId = None
    /\ imageDragRef = None
    /\ imageResizeRef = None
    /\ rows = <<>>
    /\ settings = baseSettings
    /\ selectedNode = None
    /\ dragStartRef = None
    /\ dragOffsetRef = None
    /\ gestures = 0
    /\ lastOp = initOp

\* buildParentGroups is called for a table.
InitParents ==
    /\ cls = idleCls
    /\ bld = idleBld
    /\ stk = idleStk
    /\ bal = idleBal
    /\ chart = idleChart
    /\ ld = idleLd
    /\ par \in [rows : ParentRowLists, called : {FALSE}, result : {emptyParentGroups}]
    /\ selectedImageId = None
    /\ imageDragRef = None
    /\ imageResizeRef = None
    /\ rows = <<>>
    /\ settings = baseSettings
    /\ selectedNode = None
    /\ dragStartRef = None
    /\ dragOffsetRef = None
    /\ gestures = 0
    /\ lastOp = initOp

NextParents == Parents
SpecParents == InitParents /\ [][NextParents]_vars

NextLoad == Load
SpecLoad == InitLoad /\ [][NextLoad]_vars

NextIntake == Build \/ Balance
SpecIntake == InitIntake /\ [][NextIntake]_vars

NextBuild == Build
SpecBuild == InitBuild /\ [][NextBuild]_vars

(***************************************************************************)
(* Properties of determineFlowType.                                        *)
(***************************************************************************)
\* name contains term, ignoring case (term is given in lower case).
ContainsTerm(name, term) ==
    \E i \in 0..(Len(name) - Len(term)) :
        \A j \in 1..Len(term) : LowerChar(name[i + j]) = term[j]

HasIncomeTerm(name) == ContainsTerm(name, KwDohod) \/ ContainsTerm(name, KwVyruchka)
HasMiscQualifier(name) == ContainsTerm(name, KwProchi)
HasProfitTerm(name) ==
    ContainsTerm(name, KwPribyl) \/ ContainsTerm(name, KwEbitda) \/ ContainsTerm(name, KwChistaya)

\* C1: the result of determineFlowType(source, target) is the first matching
\* category of the priority order adjacentRevenue (miscellaneous qualifier
\* with an income/revenue term in the source), revenue (income/revenue term
\* in the source), profit (profit/EBITDA/net term in the target), expense;
\* terms match in any letter case, and a source with a revenue term and a
\* target with a profit term give revenue (or adjacentRevenue, never profit).
C1_PriorityOrder ==
    cls.result # "none" =>
        /\ cls.result \in FlowTypes
        /\ cls.result = "adjacentRevenue"
               <=> (HasMiscQualifier(cls.source) /\ HasIncomeTerm(cls.source))
        /\ cls.result = "revenue"
               <=> (HasIncomeTerm(cls.source) /\ ~HasMiscQualifier(cls.source))
        /\ cls.result = "profit"
               <=> (~HasIncomeTerm(cls.source) /\ HasProfitTerm(cls.target))
        /\ cls.result = "expense"
               <=> (~HasIncomeTerm(cls.source) /\ ~HasProfitTerm(cls.target))

\* A classified row whose source carries a revenue term in capitals and whose
\* target carries a profit term in capitals, classified as revenue.
C1_Witness ==
    /\ cls.result = "revenue"
    /\ cls.source = FragVyruchkaUpper
    /\ cls.target = FragEbitdaUpper

(***************************************************************************)
(* Properties of prepareNodesAndLinks.                                     *)
(***************************************************************************)
AllRowsValid(rs) == \A k \in 1..Len(rs) : isValidRow(rs[k])

\* The names of a row list in scan order: source then target of each row.
ScannedNames(rs) ==
    [p \in 1..(2 * Len(rs)) |->
        IF p % 2 = 1 THEN trim(rs[(p + 1) \div 2].source) ELSE trim(rs[p \div 2].target)]

\* The position at which a name is first seen in the scan.
FirstSeen(rs, name) ==
    CHOOSE p \in 1..(2 * Len(rs)) :
        /\ ScannedNames(rs)[p] = name
        /\ \A q \in 1..(p - 1) : ScannedNames(rs)[q] # name

\* C2: for a list of valid rows the node list holds every trimmed source and
\* target name exactly once, in first-seen order of the scan (source before
\* target within a row), each node with its position as id, and the links of
\* rows that use the same trimmed name carry the same node index for it.
C2_NodeListFirstSeen ==
    (bld.called /\ AllRowsValid(bld.rows)) =>
        /\ {bld.nodes[i].name : i \in 1..Len(bld.nodes)} = Range(ScannedNames(bld.rows))
        /\ \A i, j \in 1..Len(bld.nodes) :
               i < j => /\ bld.nodes[i].name # bld.nodes[j].name
                        /\ FirstSeen(bld.rows, bld.nodes[i].name)
                               < FirstSeen(bld.rows, bld.nodes[j].name)
        /\ \A i \in 1..Len(bld.nodes) : bld.nodes[i].id = <<"node-", i - 1>>
        /\ Len(bld.links) = Len(bld.rows)
        /\ \A k \in 1..Len(bld.rows) :
               /\ bld.nodes[bld.links[k].source + 1].name = trim(bld.rows[k].source)
               /\ bld.nodes[bld.links[k].target + 1].name = trim(bld.rows[k].target)

\* A built list of valid rows in which one name is written with and without
\* surrounding blanks and is used by several rows.
C2_Witness ==
    /\ bld.called
    /\ AllRowsValid(bld.rows)
    /\ Len(bld.rows) = 3
    /\ Len(bld.nodes) = 3
    /\ \E j, k \in 1..Len(bld.rows) :
           /\ bld.rows[j].source # bld.rows[k].source
           /\ bld.links[j].source = bld.links[k].source

ValidPositions(rs) == {k \in 1..Len(rs) : isValidRow(rs[k])}

\* The position in rs of its i-th valid row.
NthValid(rs, i) ==
    CHOOSE k \in ValidPositions(rs) :
        Cardinality({q \in ValidPositions(rs) : q < k}) = i - 1

\* C3: the links are the valid rows, one link per valid row in table order
\* and none for an invalid row; the i-th link joins the nodes of the i-th
\* valid row with value = currentPeriod and previousValue = previousPeriod,
\* so rows with the same source/target pair give separate links.
C3_OneLinkPerValidRow ==
    bld.called =>
        /\ Len(bld.links) = Cardinality(ValidPositions(bld.rows))
        /\ \A i \in 1..Len(bld.links) :
               /\ bld.nodes[bld.links[i].source + 1].name
                      = trim(bld.rows[NthValid(bld.rows, i)].source)
               /\ bld.nodes[bld.links[i].target + 1].name
                      = trim(bld.rows[NthValid(bld.rows, i)].target)
               /\ bld.links[i].value = bld.rows[NthValid(bld.rows, i)].currentPeriod
               /\ bld.links[i].currentValue = bld.rows[NthValid(bld.rows, i)].currentPeriod
               /\ bld.links[i].previousValue = bld.rows[NthValid(bld.rows, i)].previousPeriod

\* A built list with an invalid row between two valid rows of the same
\* source/target pair: two parallel links with their own values.
C3_Witness ==
    /\ bld.called
    /\ Len(bld.rows) = 3
    /\ ~isValidRow(bld.rows[2])
    /\ Len(bld.links) = 2
    /\ bld.links[1].source = bld.links[2].source
    /\ bld.links[1].target = bld.links[2].target
    /\ bld.links[1].value # bld.links[2].value
    /\ bld.links[1].previousValue # bld.links[1].value

\* C4: for any row list, every node of the returned node list is the trimmed
\* source or target of at least one valid row.
C4_NodesOfValidRows ==
    bld.called =>
        \A i \in 1..Len(bld.nodes) :
            \E k \in ValidPositions(bld.rows) :
                bld.nodes[i].name \in {trim(bld.rows[k].source), trim(bld.rows[k].target)}

(***************************************************************************)
(* Properties of the drawn node box and of the stored offsets.             *)
(***************************************************************************)
InsideInterior(st, box) ==
    /\ box.x0 >= MarginLeft * Unit
    /\ box.x1 <= (chartWidthOf(st) - MarginRight) * Unit
    /\ box.y0 >= MarginTop * Unit
    /\ box.y1 <= (chartHeightOf(st) - MarginBottom) * Unit

\* The scaled box of the node is not higher than the canvas interior.
FitsInterior(st, node) ==
    scaledHeight(st, node) <= (chartHeightOf(st) - MarginBottom - MarginTop) * Unit

\* The offset stored for a node, in pixels (0 where none is stored).
StoredOffset(st, name) ==
    [x |-> OrDefault(getNodeSettings(st, name).offsetX, 0),
     y |-> OrDefault(getNodeSettings(st, name).offsetY, 0)]

\* C5: for every node, stored offset, live drag delta and linkWidthScale of
\* the slider, the box at which the node is drawn (scaled box translated by
\* the clamped offset) lies inside the canvas interior.
C5_DrawnBoxInsideInterior ==
    \A ln \in {layoutNodes(rows, settings)} :
        \A i \in 1..Len(ln) :
            InsideInterior(settings, getScaledNodeBox(settings, ln[i], dragOffsetRef))

\* C6: clamping a clamped offset returns it unchanged, for every node and
\* every raw offset (stored offset plus live drag delta).
C6_ClampIdempotent ==
    \A ln \in {layoutNodes(rows, settings)} :
        \A i \in 1..Len(ln) :
            \A c \in {getClampedOffset(settings, ln[i], dragOffsetRef)} :
                clampRaw(settings, ln[i], c) = c

\* The drag override of the gesture that ended last.
LastOverride ==
    Some([nodeName |-> TheValue(lastOp.node),
          deltaX |-> lastOp.delta.x, deltaY |-> lastOp.delta.y])

\* C7 as stated: the offset committed at pointer-up is the clamped offset at
\* which the node was last displayed, so that the stored offset keeps the
\* scaled box inside the canvas margins.
C7_CommittedOffsetIsClamped ==
    lastOp.op = "dragEndMove" =>
        \A ln \in {layoutNodes(rows, lastOp.prev)} :
            \A node \in {nodeByName(ln, TheValue(lastOp.node))} :
                /\ toUnits(StoredOffset(settings, node.name))
                       = getClampedOffset(lastOp.prev, node, LastOverride)
                /\ InsideInterior(settings,
                       getScaledNodeBoxWithOffset(settings, node,
                           toUnits(StoredOffset(settings, node.name))))

\* C7 amended: the offset committed at pointer-up is the raw offset, the
\* offset stored at pointer-down plus the pointer displacement, for the
\* dragged node only; the clamp is applied when the node is drawn, and the
\* drawn box of every node whose scaled box fits the interior is inside it.
C7_CommittedOffsetIsRaw ==
    /\ lastOp.op = "dragEndMove" =>
           /\ StoredOffset(settings, TheValue(lastOp.node))
                  = [x |-> StoredOffset(lastOp.prev, TheValue(lastOp.node)).x + lastOp.delta.x,
                     y |-> StoredOffset(lastOp.prev, TheValue(lastOp.node)).y + lastOp.delta.y]
           /\ \A name \in nodeNames(rows) \ lastOp.node :
                  getNodeSettings(settings, name) = getNodeSettings(lastOp.prev, name)
    /\ \A ln \in {layoutNodes(rows, settings)} :
           \A i \in 1..Len(ln) :
               FitsInterior(settings, ln[i]) =>
                   InsideInterior(settings, getScaledNodeBox(settings, ln[i], dragOffsetRef))

\* A drag of a node that had a stored offset has ended: its stored offset
\* carries the old offset and the displacement, puts the scaled box (which fits the interior) outside the
\* margins, and differs from the clamped offset the node is drawn at.
C7_Witness ==
    /\ lastOp.op = "dragEndMove"
    /\ StoredOffset(lastOp.prev, TheValue(lastOp.node)) # zeroOffset
    /\ \A ln \in {layoutNodes(rows, settings)} :
           \A node \in {nodeByName(ln, TheValue(lastOp.node))} :
               /\ FitsInterior(settings, node)
               /\ ~InsideInterior(settings,
                      getScaledNodeBoxWithOffset(settings, node,
                          toUnits(StoredOffset(settings, node.name))))
               /\ getClampedOffset(settings, node, None)
                      # toUnits(StoredOffset(settings, node.name))
               /\ InsideInterior(settings, getScaledNodeBox(settings, node, None))

(***************************************************************************)
(* Properties of moveNodeByDirection.  The sibling group is stated from    *)
(* the rows: the nodes of a column with the same dominant parent.          *)
(***************************************************************************)
\* The valid rows that enter node t.
IncomingRows(valid, t) == {k \in 1..Len(valid) : trim(valid[k].target) = t}

HasDominantParent(valid, t) == IncomingRows(valid, t) # {}

\* The source of the incoming row with the largest currentPeriod, the first
\* such row in table order.
DominantParent(valid, t) ==
    trim(valid[CHOOSE k \in IncomingRows(valid, t) :
                   \A j \in IncomingRows(valid, t) :
                       \/ valid[k].currentPeriod > valid[j].currentPeriod
                       \/ valid[k].currentPeriod = valid[j].currentPeriod /\ k <= j].source)

\* The names of n's column, in the order of the column list, that have the
\* same dominant parent as n.
SiblingGroupList(valid, lc, n) ==
    IF ~HasDominantParent(valid, n) \/ n \notin DOMAIN lc.columnByName THEN <<>>
    ELSE SelectSeq(lc.columns[lc.columnByName[n]],
                   LAMBDA m : /\ HasDominantParent(valid, m)
                              /\ DominantParent(valid, m) = DominantParent(valid, n))

\* The sibling group of n in its current order: by rank in the dominant
\* parent's childrenOrder, else by position in the column.
SiblingGroupOrder(rs, st, n) ==
    Let(validRowsOf(rs), LAMBDA valid :
    Let(layoutColumns(rs, st), LAMBDA lc :
    Let(SiblingGroupList(valid, lc, n), LAMBDA group :
        IF group = <<>> THEN <<>>
        ELSE sortSiblings(childrenOrderOf(st, DominantParent(valid, n)), group, Range(group)))))

MovedNode == TheValue(lastOp.node)
MoveTarget(order) ==
    IF lastOp.dir = "up" THEN indexOf(order, MovedNode) - 1 ELSE indexOf(order, MovedNode) + 1

\* The rank of a name in every childrenOrder map of the settings.
RanksOf(st, name) ==
    {<<parent, childrenOrderOf(st, parent)[name]>> :
        parent \in {q \in DOMAIN st.nodeSettings : name \in DOMAIN childrenOrderOf(st, q)}}

\* C8: a move that changes the settings exchanges n with its immediate
\* neighbour in the direction of the move within the sibling group (the
\* nodes of n's column whose dominant parent is n's), and the rank of a node
\* with another dominant parent does not change.
C8_SwapWithinSiblingGroup ==
    (lastOp.op = "moveNode" /\ settings # lastOp.prev) =>
        \A before \in {SiblingGroupOrder(rows, lastOp.prev, MovedNode)} :
            /\ indexOf(before, MovedNode) >= 0
            /\ MoveTarget(before) >= 0
            /\ MoveTarget(before) < Len(before)
            /\ SiblingGroupOrder(rows, settings, MovedNode)
                   = swapped(before, indexOf(before, MovedNode), MoveTarget(before))
            /\ \A m \in nodeNames(rows) \ Range(before) :
                   RanksOf(settings, m) = RanksOf(lastOp.prev, m)

\* C9: a move leaves the settings unchanged when n has no dominant parent,
\* when the sibling group of n in its column has no other member, and when
\* n is first (up) or last (down) in its sibling group.
C9_NoOpLeavesSettings ==
    lastOp.op = "moveNode" =>
        \A before \in {SiblingGroupOrder(rows, lastOp.prev, MovedNode)} :
            ( \/ Len(before) <= 1
              \/ lastOp.dir = "up" /\ before[1] = MovedNode
              \/ lastOp.dir = "down" /\ before[Len(before)] = MovedNode )
            => settings = lastOp.prev

\* C10: after a move that changes the settings, the childrenOrder of the
\* dominant parent maps the k members of the sibling group one-to-one onto
\* 0..k-1 in the new order (the previous order with n and its neighbour
\* exchanged), and nothing but that childrenOrder is modified.
C10_ContiguousRanks ==
    (lastOp.op = "moveNode" /\ settings # lastOp.prev) =>
        \A before \in {SiblingGroupOrder(rows, lastOp.prev, MovedNode)} :
        \A parent \in {DominantParent(validRowsOf(rows), MovedNode)} :
        \A co \in {childrenOrderOf(settings, parent)} :
            /\ Range(before) \subseteq DOMAIN co
            /\ {co[m] : m \in Range(before)} = 0..(Len(before) - 1)
            /\ MoveTarget(before) >= 0 /\ MoveTarget(before) < Len(before)
            /\ \A i \in 1..Len(before) :
                   co[swapped(before, indexOf(before, MovedNode), MoveTarget(before))[i]] = i - 1
            /\ [settings EXCEPT !.nodeSettings = <<>>]
                   = [lastOp.prev EXCEPT !.nodeSettings = <<>>]
            /\ \A name \in (DOMAIN settings.nodeSettings) \cup (DOMAIN lastOp.prev.nodeSettings) :
                   IF name = parent
                   THEN [getNodeSettings(settings, name) EXCEPT !.childrenOrder = None]
                            = [getNodeSettings(lastOp.prev, name) EXCEPT !.childrenOrder = None]
                   ELSE /\ name \in DOMAIN settings.nodeSettings
                        /\ name \in DOMAIN lastOp.prev.nodeSettings
                        /\ settings.nodeSettings[name] = lastOp.prev.nodeSettings[name]

(***************************************************************************)
(* Move-up followed by move-down.                                          *)
(***************************************************************************)
\* The order getSiblingOrder reports for a node (empty when it reports null).
ReportedOrder(rs, st, n) ==
    Let(getSiblingOrder(rs, st, n), LAMBDA info :
        IF IsSome(info) THEN TheValue(info).order ELSE <<>>)

\* The sibling order of n is the same under two settings, as getSiblingOrder
\* reports it and within the nodes of n's dominant parent.
SameSiblingOrder(rs, st1, st2, n) ==
    /\ ReportedOrder(rs, st1, n) = ReportedOrder(rs, st2, n)
    /\ SiblingGroupOrder(rs, st1, n) = SiblingGroupOrder(rs, st2, n)

\* The settings after a move-down of n that follows the move-up just made.
AfterMoveDown == moveNodeByDirection(rows, settings, MovedNode, "down")

\* C11 as stated: for any node n of a sibling group, move-up on n followed
\* by move-down on n leaves the sibling order equal to the order before.
C11_UpThenDownRestores ==
    (lastOp.op = "moveNode" /\ lastOp.dir = "up") =>
        \A after \in {AfterMoveDown} :
            SameSiblingOrder(rows, after, lastOp.prev, MovedNode)

\* C11 amended: when the move-up changed the settings (n was not first in
\* its group), the following move-down restores the sibling order; when the
\* move-up was a no-op, the result is that of the move-down alone.
C11_UpThenDownRestoresUnlessFirst ==
    (lastOp.op = "moveNode" /\ lastOp.dir = "up") =>
        \A after \in {AfterMoveDown} :
            IF settings # lastOp.prev
            THEN SameSiblingOrder(rows, after, lastOp.prev, MovedNode)
            ELSE after = moveNodeByDirection(rows, lastOp.prev, MovedNode, "down")

\* A move-up of the last node of a group of three has changed the order, and
\* the move-down that follows changes it back.
C11_Witness ==
    /\ lastOp.op = "moveNode"
    /\ lastOp.dir = "up"
    /\ settings # lastOp.prev
    /\ Len(ReportedOrder(rows, lastOp.prev, MovedNode)) = 3
    /\ ReportedOrder(rows, lastOp.prev, MovedNode)[3] = MovedNode
    /\ ReportedOrder(rows, settings, MovedNode)[2] = MovedNode
    /\ AfterMoveDown # settings

(***************************************************************************)
(* The rendered order of a column and the sibling-order override.          *)
(***************************************************************************)
\* The top of the box at which a node is drawn when no drag is in progress.
DrawnTop(rs, st, name) ==
    Let(layoutNodes(rs, st), LAMBDA ln :
        getScaledNodeBox(st, nodeByName(ln, name), None).y0)

\* The sibling the last move exchanged the moved node with.
ExchangedSibling ==
    Let(ReportedOrder(rows, lastOp.prev, MovedNode), LAMBDA before :
        before[MoveTarget(before) + 1])

\* C12: the rendered order of a column follows the childrenOrder ranks, so
\* after a successful moveNodeByDirection(n, up) the diagram shows n above
\* the sibling it was exchanged with.
C12_MovedUpIsDrawnAbove ==
    (lastOp.op = "moveNode" /\ lastOp.dir = "up" /\ settings # lastOp.prev) =>
        DrawnTop(rows, settings, MovedNode) < DrawnTop(rows, settings, ExchangedSibling)

\* A successful move-up has given the moved node a lower rank than the
\* sibling it was exchanged with.
C12_Witness ==
    /\ lastOp.op = "moveNode"
    /\ lastOp.dir = "up"
    /\ settings # lastOp.prev
    /\ indexOf(ReportedOrder(rows, settings, MovedNode), MovedNode)
           < indexOf(ReportedOrder(rows, settings, MovedNode), ExchangedSibling)

(***************************************************************************)
(* The colour of a link.                                                   *)
(***************************************************************************)
\* A node has a colour when its colour override is a non-empty text.
HasColour(st, name) ==
    /\ name \in DOMAIN st.nodeSettings
    /\ st.nodeSettings[name].color \notin {None, Some("")}
ColourOf(st, name) == TheValue(st.nodeSettings[name].color)
HasPriority(st, name) ==
    /\ name \in DOMAIN st.nodeSettings
    /\ st.nodeSettings[name].linkColorPriority = Some(TRUE)

\* The candidates of the chain in order, each with its condition.
StrokeChain(c) ==
    <<[applies |-> HasColour(c.settings, c.target) /\ HasPriority(c.settings, c.target),
       target |-> TRUE],
      [applies |-> HasColour(c.settings, c.source) /\ HasPriority(c.settings, c.source),
       target |-> FALSE],
      [applies |-> HasColour(c.settings, c.source), target |-> FALSE],
      [applies |-> HasColour(c.settings, c.target), target |-> TRUE]>>

\* C13: the stroke of a link is the colour of the first candidate that
\* applies among target-with-priority, source-with-priority, source, target;
\* when none applies it is the default colour of the link's flow type.
C13_StrokeChain ==
    stk.result # "none" =>
        \A chain \in {StrokeChain(stk)} :
            IF \E i \in 1..4 : chain[i].applies
            THEN \A i \in 1..4 :
                    (chain[i].applies /\ \A j \in 1..(i - 1) : ~chain[j].applies) =>
                        stk.result = ColourOf(stk.settings,
                                              IF chain[i].target THEN stk.target
                                              ELSE stk.source)
            ELSE stk.result = stk.settings.colors[
                     CASE stk.flowType = "revenue" -> "revenueFlow"
                       [] stk.flowType = "adjacentRevenue" -> "adjacentRevenueFlow"
                       [] stk.flowType = "profit" -> "profitFlow"
                       [] stk.flowType = "expense" -> "expenseFlow"]

\* Both ends have a colour and the priority flag: the link takes the
\* target's colour.
C13_Witness ==
    /\ stk.result = "#9c27b0"
    /\ HasColour(stk.settings, stk.source)
    /\ HasPriority(stk.settings, stk.source)
    /\ HasPriority(stk.settings, stk.target)

(***************************************************************************)
(* The end of a node drag.                                                 *)
(***************************************************************************)
\* The displacement of the pointer-up that ended the node drag.
EndedDelta == lastOp'.delta
EndedNode == TheValue(dragStartRef).nodeName

C14_WitnessClick ==
    /\ lastOp.op = "dragEndClick"
    /\ selectedNode = lastOp.node
    /\ dragStartRef = None

(***************************************************************************)
(* Selection, reset, gestures and images.                                  *)
(***************************************************************************)
\* C15: at most one of selectedNode and selectedImageId is non-null, whatever
\* node selections, image selections, image additions, image removals and
\* empty-canvas clicks have been made.
C15_ExclusiveSelection == ~(selectedNode # None /\ selectedImageId # None)

\* An image has been added while a node was selected.
C15_Witness ==
    /\ lastOp.op = "imageAdd"
    /\ selectedNode # None

\* Every node whose settings are stored or drawn.
KnownNodes(st) == nodeNames(rows) \cup DOMAIN st.nodeSettings

\* The settings without the per-node overrides.
GlobalSettings(st) == [st EXCEPT !.nodeSettings = <<>>]

\* C16: handleResetNodePosition(n) clears offsetX and offsetY of n; the other
\* fields of n, the settings of every other node and the global settings keep
\* their values.
C16_ResetClearsOffsetOnly ==
    lastOp.op = "resetPosition" =>
        /\ getNodeSettings(settings, MovedNode).offsetX = None
        /\ getNodeSettings(settings, MovedNode).offsetY = None
        /\ \A field \in {"color", "labelSize", "valueSize", "linkColorPriority",
                         "childrenOrder"} :
               getNodeSettings(settings, MovedNode)[field]
                   = getNodeSettings(lastOp.prev, MovedNode)[field]
        /\ \A m \in (KnownNodes(settings) \cup KnownNodes(lastOp.prev)) \ {MovedNode} :
               getNodeSettings(settings, m) = getNodeSettings(lastOp.prev, m)
        /\ GlobalSettings(settings) = GlobalSettings(lastOp.prev)

\* The position of a node with a stored offset, a colour, sizes and the
\* priority flag has been reset.
C16_Witness ==
    /\ lastOp.op = "resetPosition"
    /\ getNodeSettings(lastOp.prev, MovedNode).offsetX = Some(30)
    /\ getNodeSettings(lastOp.prev, MovedNode).color = Some("#e91e63")
    /\ getNodeSettings(lastOp.prev, MovedNode).linkColorPriority = Some(TRUE)
    /\ StoredOffset(settings, MovedNode) = zeroOffset

\* The stored data a gesture may write: the settings of the dragged node, or
\* the dragged or resized image.
OthersKept(st1, st2) ==
    /\ GlobalSettings([st1 EXCEPT !.images = <<>>]) = GlobalSettings([st2 EXCEPT !.images = <<>>])
    /\ IF dragStartRef # None
       THEN /\ st1.images = st2.images
            /\ \A m \in (KnownNodes(st1) \cup KnownNodes(st2)) \ {EndedNode} :
                   getNodeSettings(st1, m) = getNodeSettings(st2, m)
       ELSE /\ st1.nodeSettings = st2.nodeSettings
            /\ Len(st1.images) = Len(st2.images)
            /\ \A i \in 1..Len(st1.images) :
                   st1.images[i].id \notin ({TheValue(r).id : r \in {imageDragRef} \ {None}}
                                            \cup {TheValue(r).id : r \in {imageResizeRef} \ {None}})
                       => st1.images[i] = st2.images[i]

\* C17: from the pointer-down to the last pointer-move of a node drag, an
\* image drag or an image resize the settings do not change; the pointer-up
\* is the only step of the gesture that may write them, and it writes only
\* what the gesture is about.
C17_WriteOnlyAtPointerUp ==
    [][/\ (~noGesture)' => settings' = settings
       /\ (~noGesture /\ noGesture') => OthersKept(settings, settings')
      ]_vars

\* An image is being dragged away from its place and its stored position is
\* still the one at pointer-down.
C17_Witness ==
    /\ lastOp.op = "imageDragMove"
    /\ ~isClick(lastOp.delta.x, lastOp.delta.y)
    /\ imageDragRef # None
    /\ \E i \in 1..Len(settings.images) :
           /\ settings.images[i].id = TheValue(imageDragRef).id
           /\ settings.images[i].x = TheValue(imageDragRef).x

\* The rectangle of an image lies inside the canvas.
InsideCanvas(st, image) ==
    /\ image.x >= 0
    /\ image.y >= 0
    /\ image.x + image.width <= chartWidthOf(st)
    /\ image.y + image.height <= chartHeightOf(st)

\* C18: after any additions, drags and position updates every placed image
\* lies inside [0, chartWidth] x [0, chartHeight].
C18_ImagesInsideCanvas ==
    \A i \in 1..Len(settings.images) : InsideCanvas(settings, settings.images[i])

\* An image drag has ended away from its start.
C18_Witness ==
    /\ lastOp.op = "imageDragEnd"
    /\ ~isClick(lastOp.delta.x, lastOp.delta.y)
    /\ settings # lastOp.prev

(***************************************************************************)
(* The balance checker.                                                    *)
(***************************************************************************)
\* Row i of a table names both of its ends and carries two finite numbers.
HasBothEnds(rs, i) == trim(rs[i].source) # <<>> /\ trim(rs[i].target) # <<>>
HasFiniteNumbers(rs, i) == rs[i].currentPeriod.finite /\ rs[i].previousPeriod.finite
HasNegative(rs, i) ==
    /\ HasFiniteNumbers(rs, i)
    /\ (rs[i].currentPeriod.value < 0 \/ rs[i].previousPeriod.value < 0)
Summable(rs) == {i \in 1..Len(rs) : HasBothEnds(rs, i) /\ HasFiniteNumbers(rs, i)}
Unflagged(rs) == {i \in Summable(rs) : ~HasNegative(rs, i)}

\* The sum of a period over the rows of a set that leave (or enter) a node.
RECURSIVE FlowSum(_, _, _, _, _)
FlowSum(rs, among, name, end, period) ==
    IF among = {} THEN 0
    ELSE LET i == CHOOSE j \in among : TRUE
         IN  (IF trim(rs[i][end]) = name THEN rs[i][period].value ELSE 0)
             + FlowSum(rs, among \ {i}, name, end, period)

EndNames(rs, among) ==
    {trim(rs[i].source) : i \in among} \cup {trim(rs[i].target) : i \in among}

\* The node balances are those of the rows of a set: one entry per name, with
\* the in and out sums of both periods.
BalancesAreSumsOver(res, rs, among) ==
    /\ {res.nodeBalances[k].name : k \in 1..Len(res.nodeBalances)} = EndNames(rs, among)
    /\ \A k \in 1..Len(res.nodeBalances) :
           \A node \in {res.nodeBalances[k]} :
               /\ \A l \in 1..Len(res.nodeBalances) :
                      res.nodeBalances[l].name = node.name => l = k
               /\ node.currentOut = FlowSum(rs, among, node.name, "source", "currentPeriod")
               /\ node.previousOut = FlowSum(rs, among, node.name, "source", "previousPeriod")
               /\ node.currentIn = FlowSum(rs, among, node.name, "target", "currentPeriod")
               /\ node.previousIn = FlowSum(rs, among, node.name, "target", "previousPeriod")
               /\ node.hasOut <=> \E i \in among : trim(rs[i].source) = node.name
               /\ node.hasIn <=> \E i \in among : trim(rs[i].target) = node.name

NamesOf(nodes) == {nodes[k].name : k \in 1..Len(nodes)}
NodeOf(res, name) ==
    res.nodeBalances[CHOOSE k \in 1..Len(res.nodeBalances) :
                         res.nodeBalances[k].name = name]

ExampleBalanced ==
    <<Row(NameA, NameB, amount(10, 0), amount(8, 0)),
      Row(NameA, NameC, amount(5, 0), amount(5, 0))>>
ExampleImbalanced ==
    <<Row(NameA, NameB, amount(10, 0), amount(0, 0)),
      Row(NameB, NameC, amount(4, 0), amount(0, 0))>>

\* C19: per node and period the checker sums the rows leaving and entering
\* the node; a node is a pure source, a pure sink or intermediate as it has
\* outgoing rows only, incoming rows only or both; the imbalanced nodes are
\* the intermediate ones whose inflow and outflow differ by more than 0.001
\* in the current or the previous period.  For [(A->B,10,8),(A->C,5,5)] A is
\* a pure source with currentOut = 15 and nothing is imbalanced; for
\* [(A->B,10,0),(B->C,4,0)] B is imbalanced.
C19_BalancePerNode ==
    bal.called =>
        \A res \in {bal.result} :
            /\ BalancesAreSumsOver(res, bal.rows, Summable(bal.rows))
            /\ \A name \in NamesOf(res.nodeBalances) :
                   \A node \in {NodeOf(res, name)} :
                       /\ name \in NamesOf(res.sourceNodes) <=> (node.hasOut /\ ~node.hasIn)
                       /\ name \in NamesOf(res.sinkNodes) <=> (node.hasIn /\ ~node.hasOut)
                       /\ name \in NamesOf(res.intermediateNodes) <=> (node.hasIn /\ node.hasOut)
                       /\ name \in NamesOf(res.imbalancedNodes) <=>
                              /\ node.hasIn /\ node.hasOut
                              /\ \/ Abs(node.currentIn - node.currentOut) > Epsilon
                                 \/ Abs(node.previousIn - node.previousOut) > Epsilon
            /\ bal.rows = ExampleBalanced =>
                   /\ NamesOf(res.sourceNodes) = {NameA}
                   /\ NodeOf(res, NameA).currentOut = amount(15, 0).value
                   /\ res.imbalancedNodes = <<>>
            /\ bal.rows = ExampleImbalanced => NamesOf(res.imbalancedNodes) = {NameB}

\* The second example has been checked: B receives 10, passes on 4 and is
\* the imbalanced node.
C19_Witness ==
    /\ bal.called
    /\ bal.rows = ExampleImbalanced
    /\ NodeOf(bal.result, NameB).currentIn = amount(10, 0).value
    /\ NodeOf(bal.result, NameB).currentOut = amount(4, 0).value
    /\ NamesOf(bal.result.imbalancedNodes) = {NameB}

\* C20: the checker flags every row with a missing source or target, a
\* non-finite number or a negative value, goes on after a flagged row, and
\* aggregates exactly the rows it did not flag.
C20_AggregatesUnflaggedRows ==
    bal.called =>
        \A res \in {bal.result} :
            /\ {res.issues[k].row : k \in 1..Len(res.issues)}
                   = (1..Len(bal.rows)) \ Unflagged(bal.rows)
            /\ BalancesAreSumsOver(res, bal.rows, Unflagged(bal.rows))

\* A row with a negative value has been flagged, and the row after it has
\* been handled.
C20_Witness ==
    /\ bal.called
    /\ Len(bal.rows) = 2
    /\ HasNegative(bal.rows, 1)
    /\ \E k \in 1..Len(bal.result.issues) :
           bal.result.issues[k] = [row |-> 1, kind |-> "negative"]
    /\ 2 \in Unflagged(bal.rows)

(***************************************************************************)
(* Invalid rows in graph construction and in the balance checker.          *)
(***************************************************************************)
\* Row i has an empty name, or a non-finite or negative value in a period.
IsInvalidRow(rs, i) == i \notin Unflagged(rs)

\* A link carries the ends and the values of row i.
LinkIsOfRow(link, rs, i) ==
    /\ HasBothEnds(rs, i)
    /\ bld.nodes[link.source + 1].name = trim(rs[i].source)
    /\ bld.nodes[link.target + 1].name = trim(rs[i].target)
    /\ link.currentValue = rs[i].currentPeriod.value
    /\ link.previousValue = rs[i].previousPeriod.value

\* C21: a row with an empty source or target, or with a non-finite or
\* negative value in either period, yields no link in graph construction and
\* is reported by the balance checker.
C21_InvalidRowsExcludedAndReported ==
    (bld.called /\ bal.called) =>
        \A i \in 1..Len(bal.rows) :
            IsInvalidRow(bal.rows, i) =>
                /\ \A k \in 1..Len(bld.links) : ~LinkIsOfRow(bld.links[k], bal.rows, i)
                /\ \E k \in 1..Len(bal.result.issues) : bal.result.issues[k].row = i

\* A table with a row whose previous period is negative has been through
\* graph construction and the balance checker, and the checker reports it.
C21_Witness ==
    /\ bld.called
    /\ bal.called
    /\ \E i \in 1..Len(bal.rows) :
           /\ bal.rows[i].currentPeriod.value > 0
           /\ bal.rows[i].previousPeriod.finite
           /\ bal.rows[i].previousPeriod.value < 0
           /\ \E k \in 1..Len(bal.result.issues) :
                  bal.result.issues[k] = [row |-> i, kind |-> "negative"]


(***************************************************************************)
(* C22: when the set of valid rows is empty no diagram is rendered: once   *)
(* the chart has been rendered for rows without a valid row, also after a  *)
(* diagram was drawn before, the scene holds no node rectangle and no link *)
(* path, and no error was raised.                                          *)
(***************************************************************************)
SceneIsEmpty == chart.scene.nodes = <<>> /\ chart.scene.links = <<>>

C22_NoDiagramWithoutValidRows ==
    (chart.rendered /\ chart.rows = rows /\ validRowsOf(rows) = <<>>)
        => (SceneIsEmpty /\ ~chart.raised)

\* The chart was rendered for a table without a valid row after a diagram
\* had been drawn.
C22_Witness ==
    /\ Mounted
    /\ validRowsOf(rows) = <<>>
    /\ IsSome(chart.layoutCacheRef)

(***************************************************************************)
(* C23: for every row list, also one whose valid rows form a cycle or a    *)
(* self-loop, graph construction and layout complete without raising an    *)
(* error and the application continues.                                    *)
(***************************************************************************)
C23_LayoutNeverRaises == ~chart.raised

\* The chart was rendered for the rows A->B, B->A.
C23_Witness == chart.rendered /\ chart.rows = TableCycle /\ rows = TableCycle

\* The chart was rendered for the row A->A.
C23_WitnessSelfLoop == chart.rendered /\ chart.rows = TableSelfLoop /\ chart.raised

(***************************************************************************)
(* C24: loadRowsFromStorage returns, in stored order, exactly the stored   *)
(* elements that are structurally valid rows (string id, source, target;   *)
(* numeric currentPeriod, previousPeriod); it returns the sample data when *)
(* the blob is absent, does not parse, is no array or holds no such row.   *)
(* A corrupt rows blob does not keep the settings blob from loading, nor   *)
(* the other way round.                                                    *)
(***************************************************************************)
IsArrayBlob(blob) == IsSome(blob) /\ TheValue(blob).ok /\ TheValue(blob).value.type = "array"
StoredElements(blob) == IF IsArrayBlob(blob) THEN TheValue(blob).value.items ELSE <<>>

HasField(item, name, type) ==
    /\ item.type = "object"
    /\ name \in DOMAIN item.fields
    /\ item.fields[name].type = type

StructurallyValid(item) ==
    /\ HasField(item, "id", "string")
    /\ HasField(item, "source", "string")
    /\ HasField(item, "target", "string")
    /\ HasField(item, "currentPeriod", "number")
    /\ HasField(item, "previousPeriod", "number")

ValidElements(blob) == SelectSeq(StoredElements(blob), StructurallyValid)

\* The settings blob is an object whose node settings are objects.
IsSettingsObject(blob) ==
    /\ IsSome(blob) /\ TheValue(blob).ok /\ TheValue(blob).value.type = "object"
    /\ \A n \in DOMAIN TheValue(blob).value.fields["nodeSettings"] :
           TheValue(blob).value.fields["nodeSettings"][n] # jsNull
StoredSettingsOf(blob) == TheValue(blob).value.fields["nodeSettings"]

C24_LoadRowsFromStorage ==
    ld.called =>
        /\ \A valid \in {ValidElements(ld.rowsBlob)} :
               IF valid = <<>> THEN ld.rows = sampleData
               ELSE /\ Len(ld.rows) = Len(valid)
                    /\ \A i \in 1..Len(valid) :
                           /\ ld.rows[i].id = valid[i].fields["id"].s
                           /\ ld.rows[i].source = valid[i].fields["source"].s
                           /\ ld.rows[i].target = valid[i].fields["target"].s
                           /\ ld.rows[i].currentPeriod = valid[i].fields["currentPeriod"].n
                           /\ ld.rows[i].previousPeriod = valid[i].fields["previousPeriod"].n
        /\ IsSettingsObject(ld.settingsBlob) =>
               \A n \in DOMAIN StoredSettingsOf(ld.settingsBlob) :
                   /\ n \in DOMAIN ld.settings.nodeSettings
                   /\ ld.settings.nodeSettings[n].orderY
                          = StoredSettingsOf(ld.settingsBlob)[n].orderY
                   /\ ld.settings.nodeSettings[n].offsetX
                          = StoredSettingsOf(ld.settingsBlob)[n].offsetX
        /\ ~IsSettingsObject(ld.settingsBlob) => ld.settings = baseSettings

\* An array with a valid and an invalid element was loaded while the
\* settings blob did not parse.
C24_Witness ==
    /\ ld.called
    /\ Len(StoredElements(ld.rowsBlob)) = 2
    /\ Len(ValidElements(ld.rowsBlob)) = 1
    /\ Len(ld.rows) = 1
    /\ ld.settingsBlob = Some(unparsable)

\* Stored settings were loaded while the rows blob did not parse.
C24_WitnessCorruptRows ==
    /\ ld.called
    /\ ld.rowsBlob = Some(unparsable)
    /\ ld.rows = sampleData
    /\ IsSettingsObject(ld.settingsBlob)
    /\ ld.settings # baseSettings

(***************************************************************************)
(* C25: migration on load.  For every node c that carries a numeric legacy *)
(* orderY and has a dominant parent P in the loaded rows, after loading    *)
(* the childrenOrder of P has an entry for c: the value stored before in   *)
(* P.childrenOrder[c] if there was one, else the orderY of c.  Without a   *)
(* stored childrenOrder the ranks of the children of a parent are ordered  *)
(* as their orderY values.                                                 *)
(***************************************************************************)
StoredChildrenOrder(ns, parent) ==
    IF parent \in DOMAIN ns /\ IsSome(ns[parent].childrenOrder)
    THEN TheValue(ns[parent].childrenOrder) ELSE <<>>

LegacyNodes(ns) ==
    {c \in DOMAIN ns : IsSome(ns[c].orderY) /\ HasDominantParent(ld.rows, c)}

C25_MigrationFillsGaps ==
    (ld.called /\ IsSettingsObject(ld.settingsBlob)) =>
        \A ns \in {StoredSettingsOf(ld.settingsBlob)} :
        \A c \in LegacyNodes(ns) :
        \A parent \in {DominantParent(ld.rows, c)} :
        \A loadedOrder \in {childrenOrderOf(ld.settings, parent)} :
            /\ c \in DOMAIN loadedOrder
            /\ loadedOrder[c] = IF c \in DOMAIN StoredChildrenOrder(ns, parent)
                                THEN StoredChildrenOrder(ns, parent)[c]
                                ELSE TheValue(ns[c].orderY)
            /\ StoredChildrenOrder(ns, parent) = <<>> =>
                   \A d \in LegacyNodes(ns) :
                       DominantParent(ld.rows, d) = parent =>
                           /\ d \in DOMAIN loadedOrder
                           /\ (loadedOrder[c] < loadedOrder[d])
                                  <=> (TheValue(ns[c].orderY) < TheValue(ns[d].orderY))

\* P was stored with a rank for A, A and B carry an orderY, and P is the
\* dominant parent of both in the loaded rows: the rank of A was kept and
\* B received its orderY.
C25_Witness ==
    /\ ld.called
    /\ IsSettingsObject(ld.settingsBlob)
    /\ StoredChildrenOrder(StoredSettingsOf(ld.settingsBlob), NameP) # <<>>
    /\ {NameA, NameB} \subseteq LegacyNodes(StoredSettingsOf(ld.settingsBlob))
    /\ DominantParent(ld.rows, NameA) = NameP
    /\ DominantParent(ld.rows, NameB) = NameP
    /\ childrenOrderOf(ld.settings, NameP)[NameA] = 0
    /\ childrenOrderOf(ld.settings, NameP)[NameB] = 1

\* The rows blob did not parse, so the orderY values of two nodes of the
\* sample data moved to their parent.
C25_WitnessSampleData ==
    /\ ld.called
    /\ ld.rowsBlob = Some(unparsable)
    /\ IsSettingsObject(ld.settingsBlob)
    /\ SampleRevenue \in DOMAIN ld.settings.nodeSettings
    /\ DOMAIN childrenOrderOf(ld.settings, SampleRevenue) = {SampleGross, SampleCost}

(***************************************************************************)
(* C26: the column of a node depends only on the topology of the valid     *)
(* rows.  The chart layout and the column map give every node the column   *)
(* they give it under settings without any node settings, so no drag,      *)
(* reorder, reset or auto-layout changes a column; tables with the same    *)
(* links give the same columns.                                            *)
(***************************************************************************)
Topology(rs) ==
    Let(validRowsOf(rs), LAMBDA valid :
        Tuple([i \in 1..Len(valid) |-> <<trim(valid[i].source), trim(valid[i].target)>>]))

Acyclic(rs) ==
    validRowsOf(rs) = <<>> \/ ~circularLink(prepareNodesAndLinks(validRowsOf(rs)))

WithoutNodeSettings(st) == [st EXCEPT !.nodeSettings = <<>>]

SceneColumns ==
    [name \in {chart.scene.nodes[i].name : i \in 1..Len(chart.scene.nodes)} |->
        nodeByName(chart.scene.nodes, name).layer]

C26_ColumnsFromTopologyOnly ==
    (Mounted /\ validRowsOf(rows) # <<>>) =>
        \A plain \in {layoutColumns(rows, WithoutNodeSettings(settings)).columnByName} :
            /\ layoutColumns(rows, settings).columnByName = plain
            /\ SceneColumns = plain
            /\ \A other \in RenderTables :
                   (Acyclic(other) /\ Topology(other) = Topology(rows)) =>
                       layoutColumns(other, baseSettings).columnByName = plain

\* A node carries a committed offset and a parent carries ranks of its
\* children, and the chart was drawn with them.
C26_Witness ==
    /\ Mounted
    /\ rows = TableRepeated
    /\ \E n \in DOMAIN settings.nodeSettings :
           /\ IsSome(settings.nodeSettings[n].offsetX)
           /\ TheValue(settings.nodeSettings[n].offsetX) # 0
    /\ \E n \in DOMAIN settings.nodeSettings : IsSome(settings.nodeSettings[n].childrenOrder)

(***************************************************************************)
(* C27: within the outgoing and the incoming link list of every node the   *)
(* links are ordered by the table position of the row each link was built  *)
(* from (link k is built from the k-th valid row), also when several rows  *)
(* share a source/target pair.                                             *)
(***************************************************************************)
InRowOrder(list) == \A i, j \in 1..Len(list) : i < j => list[i] < list[j]

C27_LinksInTableOrder ==
    (Mounted /\ validRowsOf(rows) # <<>>) =>
        \A n \in 1..Len(chart.scene.nodes) :
            /\ InRowOrder(chart.scene.sourceLinks[n])
            /\ InRowOrder(chart.scene.targetLinks[n])

\* The chart was drawn for the rows A->B, A->C, A->B.
C27_Witness ==
    /\ Mounted
    /\ rows = TableRepeated
    /\ \E n \in 1..Len(chart.scene.nodes) : Len(chart.scene.sourceLinks[n]) = 3

\* Without a repeated pair the lists are in row order.
C27_InOrderWithoutRepeatedPair ==
    (Mounted /\ validRowsOf(rows) # <<>> /\ rows # TableRepeated) =>
        \A n \in 1..Len(chart.scene.nodes) :
            /\ InRowOrder(chart.scene.sourceLinks[n])
            /\ InRowOrder(chart.scene.targetLinks[n])

(***************************************************************************)
(* C28: over any sequence of renders the layout is recomputed only when    *)
(* the composite key (trimmed names and both amounts of the valid rows in  *)
(* order, canvas width and height, node width, node padding) differs from  *)
(* the cached key; on an equal key the cached graph is reused; the         *)
(* geometry drawn equals a fresh layout of the current rows and settings;  *)
(* a pointer-move during a drag never recomputes the layout.               *)
(***************************************************************************)
CompositeKey(rs, st) ==
    [rows |-> Tuple([i \in 1..Len(validRowsOf(rs)) |->
                        <<trim(validRowsOf(rs)[i].source), trim(validRowsOf(rs)[i].target),
                          validRowsOf(rs)[i].currentPeriod,
                          validRowsOf(rs)[i].previousPeriod>>]),
     width |-> chartWidthOf(st),
     height |-> chartHeightOf(st),
     nodeWidth |-> nodeWidthOf(st),
     nodePadding |-> nodePaddingValue(st)]

FreshScene(rs, st) ==
    Let(validRowsOf(rs), LAMBDA valid :
        drawScene(valid, layoutGraph(prepareNodesAndLinks(valid), st)))

KeyIsCached(c, rs, st) ==
    IsSome(c.layoutCacheRef) /\ TheValue(c.layoutCacheRef).key = CompositeKey(rs, st)

RenderedValidRows ==
    /\ chart' # chart
    /\ ~chart'.raised
    /\ validRowsOf(rows) # <<>>

CacheStep ==
    /\ chart'.recomputed <=> ~KeyIsCached(chart, rows, settings)
    /\ KeyIsCached(chart, rows, settings) => (chart'.layoutCacheRef = chart.layoutCacheRef)
    /\ KeyIsCached(chart', rows, settings)
    /\ chart'.scene = FreshScene(rows, settings)

PointerMoveStep == lastOp'.op = "dragMove" /\ dragOffsetRef' # dragOffsetRef

C28_LayoutCache ==
    [][(RenderedValidRows => CacheStep) /\ (PointerMoveStep => (chart' = chart))]_vars

\* A render reused the cached graph for rows that differ from the rows it
\* was computed for.
C28_Witness ==
    /\ Mounted
    /\ validRowsOf(rows) # <<>>
    /\ ~chart.recomputed
    /\ rows # TableSingle
    /\ KeyIsCached(chart, TableSingle, settings)

\* A render reused the cached graph after a node was dragged.
C28_WitnessAfterDrag ==
    /\ Mounted
    /\ validRowsOf(rows) # <<>>
    /\ ~chart.recomputed
    /\ lastOp.op = "dragEndMove"
    /\ settings.nodeSettings # <<>>

(***************************************************************************)
(* C29: the dominant parent of a node t is the source of the incoming row  *)
(* with the largest currentPeriod, a non-finite currentPeriod counting as  *)
(* 0; among rows of equal amount the first in table order is kept; a node  *)
(* without incoming row has no dominant parent.  Incoming rows of t are    *)
(* the rows that name both ends and whose trimmed target is t.             *)
(***************************************************************************)
IncomingOf(rs, t) ==
    {k \in 1..Len(rs) : trim(rs[k].source) # <<>> /\ trim(rs[k].target) = t}

CountedAmount(row) == IF row.currentPeriod = Infinity THEN 0 ELSE row.currentPeriod

FirstLargest(rs, S) ==
    CHOOSE k \in S : \A j \in S :
        \/ CountedAmount(rs[k]) > CountedAmount(rs[j])
        \/ CountedAmount(rs[k]) = CountedAmount(rs[j]) /\ k <= j

NamesIn(rs) ==
    ({trim(rs[k].source) : k \in 1..Len(rs)} \cup {trim(rs[k].target) : k \in 1..Len(rs)})
        \ {<<>>}

C29_DominantParent ==
    par.called =>
        \A t \in NamesIn(par.rows) :
            IF IncomingOf(par.rows, t) = {} THEN t \notin DOMAIN par.result.parentByNode
            ELSE /\ t \in DOMAIN par.result.parentByNode
                 /\ par.result.parentByNode[t]
                        = trim(par.rows[FirstLargest(par.rows, IncomingOf(par.rows, t))].source)

\* Two rows of equal amount enter A, the first from P; a row with an
\* infinite amount enters A as well.
C29_Witness ==
    /\ par.called
    /\ par.rows = <<Row(NameR, NameA, Infinity, 5), Row(NameP, NameA, 5, 5),
                    Row(NameQ, NameA, 5, 5)>>
    /\ par.result.parentByNode[NameA] = NameP
    /\ NameP \notin DOMAIN par.result.parentByNode

(***************************************************************************)
(* C30: getMoveAvailability(n).canMoveUp is true exactly when              *)
(* moveNodeByDirection(n, 'up') would change the settings, canMoveDown     *)
(* likewise for 'down'; both are false when no node is selected.           *)
(***************************************************************************)
MoveWouldChange(n, direction) ==
    moveNodeByDirection(rows, settings, n, direction) # settings

C30_AvailabilityMatchesMove ==
    /\ getMoveAvailability(rows, settings, None)
           = [canMoveUp |-> FALSE, canMoveDown |-> FALSE]
    /\ \A n \in nodeNames(rows) \cup {NameD} :
       \A available \in {getMoveAvailability(rows, settings, Some(n))} :
           /\ available.canMoveUp <=> MoveWouldChange(n, "up")
           /\ available.canMoveDown <=> MoveWouldChange(n, "down")

\* The selected node was moved and can now move down but not up.
C30_Witness ==
    /\ lastOp.op = "moveNode"
    /\ settings # lastOp.prev
    /\ getMoveAvailability(rows, settings, selectedNode).canMoveDown
    /\ ~getMoveAvailability(rows, settings, selectedNode).canMoveUp

=============================================================================
